---------------------------- MODULE Spec2Model ----------------------------
(***************************************************************************)
(* Model of the metaplay CLI credential broker (package envapi), its       *)
(* request executors (envapi.httpRequest, metahttp.Request), the registry  *)
(* credential derivation, the docker availability check of the build      *)
(* docker-image command (checkDockerAvailable), and Run of the commands    *)
(* remove botclients, remove game-server and build docker-image.           *)
(*                                                                         *)
(* Conventions.  A Go pointer is a record [tag |-> "nil"] or               *)
(* [tag |-> "ptr", v |-> value].  A Go error is NoError or a record        *)
(* [tag |-> "error", msg |-> <format string>, ...arguments..., cause].     *)
(* Texts whose characters matter (base64, the registry token) are          *)
(* sequences of character codes; all other strings are TLA+ strings.       *)
(***************************************************************************)
EXTENDS Integers, Sequences, FiniteSets, TLC

(***************************************************************************)
(* Bounds of the model.                                                    *)
(***************************************************************************)
\* longest decoded registry token enumerated over the alphabet {'a', ':'}
MaxTokenLen == 3

(***************************************************************************)
(* Pointers and errors.                                                    *)
(***************************************************************************)
Nil == [tag |-> "nil"]
Ptr(v) == [tag |-> "ptr", v |-> v]
IsNil(p) == p.tag = "nil"

NoError == [tag |-> "nil"]
IsError(e) == e.tag = "error"

\* errors.New(text), and fmt.Errorf(format, ...) without a %w verb
Errorf(format) ==
  [tag |-> "error", gotype |-> "*errors.errorString", msg |-> format,
   cause |-> NoError]
\* fmt.Errorf with a %w verb: the returned error wraps cause
ErrorfW(format, cause) ==
  [tag |-> "error", gotype |-> "*fmt.wrapError", msg |-> format,
   cause |-> cause]
\* fmt.Errorf with a %v verb given an error: the text of arg becomes part
\* of the message and the returned error wraps nothing
ErrorfV(format, arg) ==
  [tag |-> "error", gotype |-> "*errors.errorString", msg |-> format,
   cause |-> NoError, formatted |-> arg]
\* an error value made by a library, of the library's own type
LibError(gotype, text) ==
  [tag |-> "error", gotype |-> gotype, msg |-> text, cause |-> NoError]

\* errors.Unwrap
Unwrap(e) == e.cause

\* the errors reachable from e by unwrapping, e itself first
RECURSIVE Chain(_)
Chain(e) == IF IsError(e) THEN << e >> \o Chain(Unwrap(e)) ELSE << >>

\* what a caller can tell of an error without reading its message: the
\* dynamic types of the error and of the errors it wraps (errors.As); the
\* code defines no sentinel error values for errors.Is
Kind(e) == [i \in 1..Len(Chain(e)) |-> Chain(e)[i].gotype]

(***************************************************************************)
(* encoding/base64, StdEncoding.  A base64 text is a sequence of numbers:  *)
(* 0..63 are the alphabet's characters, PadChar is '=', BadChar is any     *)
(* character outside the alphabet.  A byte string is a sequence of 0..255. *)
(***************************************************************************)
PadChar == 64
BadChar == 65

RECURSIVE Base64EncodeToString(_)
Base64EncodeToString(b) ==
  IF Len(b) = 0 THEN <<>>
  ELSE IF Len(b) = 1 THEN
    << b[1] \div 4, (b[1] % 4) * 16, PadChar, PadChar >>
  ELSE IF Len(b) = 2 THEN
    << b[1] \div 4, (b[1] % 4) * 16 + b[2] \div 16, (b[2] % 16) * 4, PadChar >>
  ELSE
    << b[1] \div 4, (b[1] % 4) * 16 + b[2] \div 16,
       (b[2] % 16) * 4 + b[3] \div 64, b[3] % 64 >>
      \o Base64EncodeToString(SubSeq(b, 4, Len(b)))

\* one quantum of four characters is well formed; only the last may be padded
QuantumOK(q, last) ==
  /\ q[1] < PadChar /\ q[2] < PadChar
  /\ q[3] <= PadChar /\ q[4] <= PadChar
  /\ (q[3] = PadChar => q[4] = PadChar)
  /\ (q[4] = PadChar => last)

QuantumBytes(q) ==
  LET b1 == (q[1] * 4 + q[2] \div 16) % 256
      b2 == ((q[2] % 16) * 16 + q[3] \div 4) % 256
      b3 == ((q[3] % 4) * 64 + q[4]) % 256
  IN  IF q[3] = PadChar THEN << b1 >>
      ELSE IF q[4] = PadChar THEN << b1, b2 >>
      ELSE << b1, b2, b3 >>

RECURSIVE Base64Valid(_)
Base64Valid(s) ==
  IF Len(s) = 0 THEN TRUE
  ELSE IF Len(s) < 4 THEN FALSE
  ELSE /\ QuantumOK(SubSeq(s, 1, 4), Len(s) = 4)
       /\ Base64Valid(SubSeq(s, 5, Len(s)))

RECURSIVE Base64Bytes(_)
Base64Bytes(s) ==
  IF Len(s) = 0 THEN <<>>
  ELSE QuantumBytes(SubSeq(s, 1, 4)) \o Base64Bytes(SubSeq(s, 5, Len(s)))

\* base64.StdEncoding.DecodeString: (bytes, err)
Base64DecodeString(s) ==
  IF Base64Valid(s)
    THEN [bytes |-> Base64Bytes(s), err |-> NoError]
    ELSE [bytes |-> <<>>,
          err |-> LibError("base64.CorruptInputError", "illegal base64 data")]

(***************************************************************************)
(* strings.SplitN(s, ":", 2) on a sequence of character codes.             *)
(***************************************************************************)
Colon == 58

\* index of the first occurrence of c in s, 0 when there is none
RECURSIVE IndexFrom(_, _, _)
IndexFrom(s, c, i) ==
  IF i > Len(s) THEN 0
  ELSE IF s[i] = c THEN i
  ELSE IndexFrom(s, c, i + 1)

Index(s, c) == IndexFrom(s, c, 1)

\* index of the last occurrence of c in s, 0 when there is none
RECURSIVE LastIndexFrom(_, _, _)
LastIndexFrom(s, c, i) ==
  IF i < 1 THEN 0
  ELSE IF s[i] = c THEN i
  ELSE LastIndexFrom(s, c, i - 1)

\* the split at the last separator instead of the first
SplitN2_Last(s, c) ==
  IF LastIndexFrom(s, c, Len(s)) = 0 THEN << s >>
  ELSE << SubSeq(s, 1, LastIndexFrom(s, c, Len(s)) - 1),
          SubSeq(s, LastIndexFrom(s, c, Len(s)) + 1, Len(s)) >>

SplitN2(s, c) ==
  LET i == Index(s, c)
  IN  IF i = 0 THEN << s >>
      ELSE << SubSeq(s, 1, i - 1), SubSeq(s, i + 1, Len(s)) >>

(***************************************************************************)
(* JSON documents and encoding/json.Unmarshal.                             *)
(*                                                                         *)
(* A JSON value is absent, a number, a string, a string whose characters   *)
(* are modelled (base64 text) or an object (a record of JSON values).  A   *)
(* response document is malformed text, the literal null or an object.     *)
(***************************************************************************)
JAbsent == [t |-> "absent"]
JNum == [t |-> "number"]
JStr(s) == [t |-> "string", s |-> s]
JB64(b) == [t |-> "string64", b |-> b]
JObj(o) == [t |-> "object", o |-> o]

DocText == [kind |-> "text"]
DocNull == [kind |-> "null"]
DocObject(o) == [kind |-> "object", o |-> o]

\* the member named k of the object o; unknown members are ignored
Member(o, k) == IF k \in DOMAIN o THEN o[k] ELSE JAbsent

JsonSyntaxError == LibError("*json.SyntaxError", "invalid character")
JsonTypeError == LibError("*json.UnmarshalTypeError", "json: cannot unmarshal")

\* the first error of a sequence of errors, NoError if there is none
RECURSIVE FirstError(_)
FirstError(errs) ==
  IF Len(errs) = 0 THEN NoError
  ELSE IF IsError(errs[1]) THEN errs[1]
  ELSE FirstError(Tail(errs))

\* a JSON value stored into a Go string field: a value of the wrong type
\* leaves the field untouched and is reported, decoding goes on
DecodeStringField(j) ==
  IF j.t = "string" THEN [v |-> j.s, err |-> NoError]
  ELSE IF j.t = "absent" THEN [v |-> "", err |-> NoError]
  ELSE [v |-> "", err |-> JsonTypeError]

\* a JSON value stored into a Go []byte field: the string is base64 text
DecodeBytesField(j) ==
  IF j.t = "string64"
    THEN LET d == Base64DecodeString(j.b)
         IN  [v |-> d.bytes, err |-> d.err]
  ELSE IF j.t = "absent" THEN [v |-> <<>>, err |-> NoError]
  ELSE [v |-> <<>>, err |-> JsonTypeError]

\* the object a struct field is decoded from (absent: all members absent)
SubObject(j) == IF j.t = "object" THEN j.o ELSE [none |-> JAbsent]
SubObjectErr(j) ==
  IF j.t \in {"object", "absent"} THEN NoError ELSE JsonTypeError

\* type AWSCredentials
ZeroAWSCredentials ==
  [AccessKeyId |-> "", SecretAccessKey |-> "", SessionToken |-> "",
   Expiration |-> ""]

DecodeAWSCredentials(o) ==
  LET a == DecodeStringField(Member(o, "AccessKeyId"))
      s == DecodeStringField(Member(o, "SecretAccessKey"))
      t == DecodeStringField(Member(o, "SessionToken"))
      e == DecodeStringField(Member(o, "Expiration"))
  IN  [val |-> [AccessKeyId |-> a.v, SecretAccessKey |-> s.v,
                SessionToken |-> t.v, Expiration |-> e.v],
       err |-> FirstError(<< a.err, s.err, t.err, e.err >>)]

\* type KubeExecCredential; Spec.Cluster is a pointer
ZeroKubeExecCredential ==
  [ApiVersion |-> "", Kind |-> "",
   Spec |-> [Cluster |-> Nil], Status |-> [Token |-> ""]]

DecodeCluster(j) ==
  IF j.t = "object"
    THEN LET ca == DecodeBytesField(Member(j.o, "certificateAuthorityData"))
             sv == DecodeStringField(Member(j.o, "server"))
         IN  [val |-> Ptr([CertificateAuthorityData |-> ca.v,
                           Server |-> sv.v]),
              err |-> FirstError(<< ca.err, sv.err >>)]
  ELSE [val |-> Nil, err |-> SubObjectErr(j)]

DecodeKubeExecCredential(o) ==
  LET av == DecodeStringField(Member(o, "apiVersion"))
      kd == DecodeStringField(Member(o, "kind"))
      sp == Member(o, "spec")
      cl == DecodeCluster(Member(SubObject(sp), "cluster"))
      st == Member(o, "status")
      tk == DecodeStringField(Member(SubObject(st), "token"))
  IN  [val |-> [ApiVersion |-> av.v, Kind |-> kd.v,
                Spec |-> [Cluster |-> cl.val],
                Status |-> [Token |-> tk.v]],
       err |-> FirstError(<< av.err, kd.err, SubObjectErr(sp), cl.err,
                             SubObjectErr(st), tk.err >>)]

\* type EnvironmentDetails
ZeroEnvironmentDetails ==
  [Deployment |-> [KubernetesNamespace |-> "", AwsRegion |-> "",
                   ServerHostname |-> ""]]

DecodeEnvironmentDetails(o) ==
  LET dp == Member(o, "deployment")
      ns == DecodeStringField(Member(SubObject(dp), "kubernetes_namespace"))
      rg == DecodeStringField(Member(SubObject(dp), "aws_region"))
      hn == DecodeStringField(Member(SubObject(dp), "server_hostname"))
  IN  [val |-> [Deployment |-> [KubernetesNamespace |-> ns.v,
                                AwsRegion |-> rg.v,
                                ServerHostname |-> hn.v]],
       err |-> FirstError(<< SubObjectErr(dp), ns.err, rg.err, hn.err >>)]

Zero(T) ==
  CASE T = "AWSCredentials" -> ZeroAWSCredentials
    [] T = "KubeExecCredential" -> ZeroKubeExecCredential
    [] T = "EnvironmentDetails" -> ZeroEnvironmentDetails

DecodeObject(T, o) ==
  CASE T = "AWSCredentials" -> DecodeAWSCredentials(o)
    [] T = "KubeExecCredential" -> DecodeKubeExecCredential(o)
    [] T = "EnvironmentDetails" -> DecodeEnvironmentDetails(o)

Decoded(d) == [val |-> d.val, null |-> FALSE, err |-> d.err]

\* json.Unmarshal(rawBody, &result) for a struct type T.  Malformed text is
\* rejected before anything is stored; null stores nothing into a struct
\* (null is TRUE); an object is decoded member by member and a member of the
\* wrong type is skipped, the rest is stored and the first such error
\* returned.
JsonUnmarshal(T, doc) ==
  CASE doc.kind = "text" ->
         [val |-> Zero(T), null |-> FALSE, err |-> JsonSyntaxError]
    [] doc.kind = "null" ->
         [val |-> Zero(T), null |-> TRUE, err |-> NoError]
    [] doc.kind = "object" -> Decoded(DecodeObject(T, doc.o))


(***************************************************************************)
(* HTTP responses as the executors see them.                               *)
(*                                                                         *)
(* A body is a document together with ws, which tells whether the raw      *)
(* text carries leading or trailing white space around the document.       *)
(***************************************************************************)
StatusOK == 200
StatusMultipleChoices == 300

\* resty's error for a request that got no response
RestyError == LibError("*url.Error", "transport failure")

NoBody == [ws |-> FALSE, doc |-> DocText]
TransportFailure == [err |-> RestyError, status |-> 0, body |-> NoBody]
HttpResponse(status, body) == [err |-> NoError, status |-> status, body |-> body]

\* resty Response.Body(): the raw bytes
ResponseBody(resp) == resp.body
\* resty Response.String(): the body as a string, white space trimmed
ResponseString(resp) == [resp.body EXCEPT !.ws = FALSE]

\* what one executor call did: it returned (val, err) or panicked; sent is
\* the sequence of requests it issued, unmarshal tells whether
\* json.Unmarshal ran, logged is the sequence of bodies written to the log
Outcome(kind, val, err, sent, unmarshal, logged) ==
  [kind |-> kind, val |-> val, err |-> err, sent |-> sent,
   unmarshal |-> unmarshal, logged |-> logged]

HttpCall(method, path) == [call |-> "http", method |-> method, path |-> path]

\* the status check with the upper comparison off by one
BadStatus_OffByOne(status) ==
  status < StatusOK \/ status > StatusMultipleChoices

\* the status check shared by both executors
BadStatus(status) == status < StatusOK \/ status >= StatusMultipleChoices

TransportError(method, path, cause) ==
  [tag |-> "error", gotype |-> "*fmt.wrapError",
   msg |-> "%s request to %s failed: %w", cause |-> cause,
   method |-> method, path |-> path]

StatusError(method, path, status) ==
  [tag |-> "error", gotype |-> "*errors.errorString",
   msg |-> "%s request to %s failed with status code %d", cause |-> NoError,
   method |-> method, path |-> path, status |-> status]

(***************************************************************************)
(* envapi.httpRequest[TResponse]: returns a pointer to TResponse and an    *)
(* error.                                                                  *)
(* json.Unmarshal is handed &result, a pointer to the pointer, so a body   *)
(* of null sets result to nil.                                             *)
(***************************************************************************)
\* lines 140-154: the result, from what json.Unmarshal(rawBody, &result) did
HttpDecoded(sent, rawBody, d) ==
  IF IsError(d.err)
    THEN Outcome("return", Nil, d.err, sent, TRUE, << rawBody >>)
  ELSE IF d.null
    THEN Outcome("return", Nil, NoError, sent, TRUE, <<>>)
  ELSE Outcome("return", Ptr(d.val), NoError, sent, TRUE, <<>>)

\* httpRequest issuing the request a second time after a transport failure
HttpRequest_RetryOnce(T, method, path, resp) ==
  IF method \notin {"GET", "POST"}
    THEN Outcome("panic", Nil, NoError, <<>>, FALSE, <<>>)
  ELSE IF IsError(resp.err)
    THEN Outcome("return", Nil, TransportError(method, path, resp.err),
                 << HttpCall(method, path), HttpCall(method, path) >>,
                 FALSE, <<>>)
  ELSE IF BadStatus(resp.status)
    THEN Outcome("return", Nil, StatusError(method, path, resp.status),
                 << HttpCall(method, path) >>, FALSE, <<>>)
  ELSE IF T = "string"
    THEN Outcome("return", Ptr(ResponseString(resp)), NoError,
                 << HttpCall(method, path) >>, FALSE, <<>>)
  ELSE HttpDecoded(<< HttpCall(method, path) >>, ResponseBody(resp),
                   JsonUnmarshal(T, ResponseBody(resp).doc))

HttpRequest(T, method, path, resp) ==
  IF method \notin {"GET", "POST"}
    THEN Outcome("panic", Nil, NoError, <<>>, FALSE, <<>>)
  ELSE IF IsError(resp.err)
    THEN Outcome("return", Nil, TransportError(method, path, resp.err),
                 << HttpCall(method, path) >>, FALSE, <<>>)
  ELSE IF BadStatus(resp.status)
    THEN Outcome("return", Nil, StatusError(method, path, resp.status),
                 << HttpCall(method, path) >>, FALSE, <<>>)
  ELSE IF T = "string"
    THEN Outcome("return", Ptr(ResponseString(resp)), NoError,
                 << HttpCall(method, path) >>, FALSE, <<>>)
  ELSE HttpDecoded(<< HttpCall(method, path) >>, ResponseBody(resp),
                   JsonUnmarshal(T, ResponseBody(resp).doc))

HttpGetRequest(T, path, resp) == HttpRequest(T, "GET", path, resp)
HttpPostRequest(T, path, resp) == HttpRequest(T, "POST", path, resp)

(***************************************************************************)
(* metahttp.Request[TResponse]: returns (TResponse, error), the result by  *)
(* value.  The zero value of string is the empty text.                     *)
(***************************************************************************)
EmptyString == [ws |-> FALSE, doc |-> [kind |-> "empty"]]
ZeroValue(T) == IF T = "string" THEN EmptyString ELSE Zero(T)

\* lines 427-441: the result, from what json.Unmarshal(rawBody, &result) did
RequestDecoded(sent, rawBody, d) ==
  IF IsError(d.err)
    THEN Outcome("return", d.val, d.err, sent, TRUE, << rawBody >>)
    ELSE Outcome("return", d.val, NoError, sent, TRUE, <<>>)

Request(T, baseURL, method, url, resp) ==
  IF method \notin {"GET", "POST", "PUT"}
    THEN Outcome("panic", ZeroValue(T), NoError, <<>>, FALSE, <<>>)
  ELSE IF IsError(resp.err)
    THEN Outcome("return", ZeroValue(T),
                 TransportError(method, baseURL \o url, resp.err),
                 << HttpCall(method, url) >>, FALSE, <<>>)
  ELSE IF BadStatus(resp.status)
    THEN Outcome("return", ZeroValue(T),
                 StatusError(method, baseURL \o url, resp.status),
                 << HttpCall(method, url) >>, FALSE, <<>>)
  ELSE IF T = "string"
    THEN Outcome("return", ResponseString(resp), NoError,
                 << HttpCall(method, url) >>, FALSE, <<>>)
  ELSE RequestDecoded(<< HttpCall(method, url) >>, ResponseBody(resp),
                      JsonUnmarshal(T, ResponseBody(resp).doc))

(***************************************************************************)
(* The values the environment can answer with.                             *)
(***************************************************************************)
Methods == {"GET", "POST", "PUT", "DELETE"}
Types == {"string", "AWSCredentials", "KubeExecCredential",
          "EnvironmentDetails"}

\* 'a' and ':' are the characters of the enumerated registry tokens
CharA == 97
TokenAlphabet == {CharA, Colon}
\* the token "abc:de:f"
SampleToken == << 97, 98, 99, 58, 100, 101, 58, 102 >>

SeqsUpTo(S, n) == UNION {[1..k -> S] : k \in 0..n}

\* certificate authority data as the control plane sends it (base64 text)
CAData == << 1, 2 >>
CATexts == {<< >>, Base64EncodeToString(CAData), << BadChar >>}
ServerURL == "https://k8s.example"

AWSObjects ==
  {[AccessKeyId |-> a, SecretAccessKey |-> k,
    SessionToken |-> JStr("session"), Expiration |-> JStr("soon")] :
     a \in {JStr(""), JStr("AKIA"), JNum},
     k \in {JStr(""), JStr("secret"), JAbsent}}

ClusterValues ==
  {JAbsent, JNum}
    \cup {JObj([certificateAuthorityData |-> JB64(c), server |-> JStr(u)]) :
            c \in CATexts, u \in {"", ServerURL}}

KubeExecObjects ==
  {[apiVersion |-> JStr("client.authentication.k8s.io/v1beta1"),
    kind |-> JStr("ExecCredential"),
    spec |-> JObj([cluster |-> c]),
    status |-> JObj([token |-> JStr("bearer")])] : c \in ClusterValues}

DetailsObjects ==
  {[deployment |-> JObj([kubernetes_namespace |-> n,
                         aws_region |-> JStr("eu-west-1"),
                         server_hostname |-> JStr("game.example")])] :
     n \in {JStr(""), JStr("ns-tiny-squids"), JNum}}

ObjectsOf(T) ==
  CASE T = "AWSCredentials" -> AWSObjects
    [] T = "KubeExecCredential" -> KubeExecObjects
    [] T = "EnvironmentDetails" -> DetailsObjects
    [] T = "string" -> {[text |-> JStr("kubeconfig")]}

\* every endpoint may also answer malformed text, null, or an object of
\* another shape
Docs(T) ==
  {DocText, DocNull, DocObject([unknown |-> JNum])}
    \cup {DocObject(o) : o \in ObjectsOf(T)}

Bodies(T) == {[ws |-> w, doc |-> d] : w \in BOOLEAN, d \in Docs(T)}

SampleBody(T) ==
  [ws |-> FALSE, doc |-> DocObject(CHOOSE o \in ObjectsOf(T) : TRUE)]

\* statuses around both ends of [200, 300); only 200 is paired with every
\* body
Statuses == {199, 200, 204, 299, 300, 404}

Responses(T) ==
  {TransportFailure}
    \cup {HttpResponse(st, SampleBody(T)) : st \in Statuses}
    \cup {HttpResponse(StatusOK, b) : b \in Bodies(T)}

(***************************************************************************)
(* yaml.Marshal.  A YAML node is a scalar, a sequence of nodes or a        *)
(* mapping, an ordered sequence of (key, node) pairs; a struct is written  *)
(* as a mapping of its fields in declaration order under their yaml tags.  *)
(***************************************************************************)
YStr(s) == [y |-> "str", s |-> s]
YText(b) == [y |-> "text", b |-> b]
YSeq(items) == [y |-> "seq", items |-> items]
YMap(pairs) == [y |-> "map", pairs |-> pairs]
YPair(k, n) == [k |-> k, n |-> n]

MarshalKubeConfigCluster(c) ==
  YMap(<< YPair("cluster",
            YMap(<< YPair("certificate-authority-data",
                          YText(c.Cluster.CertificateAuthorityData)),
                    YPair("server", YStr(c.Cluster.Server)) >>)),
          YPair("name", YStr(c.Name)) >>)

MarshalKubeConfigContext(c) ==
  YMap(<< YPair("context",
            YMap(<< YPair("cluster", YStr(c.Context.Cluster)),
                    YPair("user", YStr(c.Context.User)),
                    YPair("namespace", YStr(c.Context.Namespace)) >>)),
          YPair("name", YStr(c.Name)) >>)

MarshalKubeConfigUser(u) ==
  YMap(<< YPair("name", YStr(u.Name)),
          YPair("user",
            YMap(<< YPair("token", YStr(u.User.Token)),
                    YPair("exec",
                      YMap(<< YPair("command", YStr(u.User.Exec.Command)),
                              YPair("args",
                                YSeq([i \in 1..Len(u.User.Exec.Args) |->
                                        YStr(u.User.Exec.Args[i])])),
                              YPair("apiVersion",
                                YStr(u.User.Exec.ApiVersion)),
                              YPair("interactiveMode",
                                YStr(u.User.Exec.InteractiveMode)) >>))
                 >>)) >>)

\* yaml.Marshal(KubeConfig{...})
MarshalKubeConfig(kc) ==
  YMap(<< YPair("apiVersion", YStr(kc.ApiVersion)),
          YPair("clusters",
            YSeq([i \in 1..Len(kc.Clusters) |->
                    MarshalKubeConfigCluster(kc.Clusters[i])])),
          YPair("contexts",
            YSeq([i \in 1..Len(kc.Contexts) |->
                    MarshalKubeConfigContext(kc.Contexts[i])])),
          YPair("current-context", YStr(kc.CurrentContext)),
          YPair("kind", YStr(kc.Kind)),
          YPair("preferences", YMap(<< >>)),
          YPair("users",
            YSeq([i \in 1..Len(kc.Users) |->
                    MarshalKubeConfigUser(kc.Users[i])])) >>)

\* reading a document back: the node under key k of a mapping
YGet(m, k) ==
  LET i == CHOOSE j \in 1..Len(m.pairs) : m.pairs[j].k = k
  IN  m.pairs[i].n

(***************************************************************************)
(* The broker, package envapi.                                             *)
(***************************************************************************)
DetailsPath(humanId) == "/v0/deployments/" \o humanId
K8sPath(humanId) == "/v0/credentials/" \o humanId \o "/k8s"
ExecCredentialPath(humanId) ==
  "/v0/credentials/" \o humanId \o "/k8s?type=execcredential"
AWSPath(humanId) == "/v0/credentials/" \o humanId \o "/aws"

\* NewTargetEnvironment
NewTargetEnvironment(tokenSet, stackApiBaseURL, humanId) ==
  [TokenSet |-> tokenSet,
   StackApiBaseURL |-> stackApiBaseURL,
   HumanId |-> humanId,
   Resty |-> [AuthToken |-> tokenSet.AccessToken,
              BaseURL |-> stackApiBaseURL]]

\* what a broker operation did: it returned (val, err) or panicked
Return(val, err) == [kind |-> "return", val |-> val, err |-> err]
Panic == [kind |-> "panic", val |-> Nil, err |-> NoError]
NoReturn == [kind |-> "none", val |-> Nil, err |-> NoError]

\* GetDetails, from what httpGetRequest gave
GetDetails(o) == Return(o.val, o.err)

\* GetKubeConfigWithEmbeddedCredentials, from what httpPostRequest gave
GetKubeConfigWithEmbeddedCredentials(o) == Return(o.val, o.err)

\* GetKubeExecCredential, from what httpPostRequest gave
GetKubeExecCredential(o) == Return(o.val, o.err)

\* GetAWSCredentials, from what httpPostRequest gave: the fields are read
\* before err is looked at, through a pointer that is nil when the request
\* failed or the body was null
GetAWSCredentials(o) ==
  IF IsNil(o.val) THEN Panic
  ELSE IF o.val.v.AccessKeyId = ""
    THEN Return(Nil, Errorf("AWS credentials missing AccessKeyId"))
  ELSE IF o.val.v.SecretAccessKey = ""
    THEN Return(Nil, Errorf("AWS credential missing SecretAccessKey"))
  ELSE Return(o.val, o.err)

\* the check on the exec credential looking at the CA data alone
MissingCluster_CAOnly(credentials) ==
  /\ credentials.Spec.Cluster.v.CertificateAuthorityData = << >>
  /\ credentials.Spec.Cluster.v.Server # ""

\* the check on the decoded exec credential
MissingCluster(credentials) ==
  /\ credentials.Spec.Cluster.v.CertificateAuthorityData = << >>
  /\ credentials.Spec.Cluster.v.Server = ""

\* the check on the details looking at the wrong field
MissingNamespace_WrongField(environment) ==
  environment.Deployment.ServerHostname = ""

\* the check on the deployment details
MissingNamespace(environment) ==
  environment.Deployment.KubernetesNamespace = ""

\* the KubeConfig literal with the current context named after the cluster
KubeConfigOf_ContextByServer(t, credentials, environment, userinfo) ==
  [ApiVersion |-> "v1",
   Clusters |-> <<
     [Cluster |->
        [CertificateAuthorityData |->
           Base64EncodeToString(
             credentials.Spec.Cluster.v.CertificateAuthorityData),
         Server |-> credentials.Spec.Cluster.v.Server],
      Name |-> credentials.Spec.Cluster.v.Server] >>,
   Contexts |-> <<
     [Context |->
        [Cluster |-> credentials.Spec.Cluster.v.Server,
         Namespace |-> environment.Deployment.KubernetesNamespace,
         User |-> userinfo.Email],
      Name |-> t.HumanId] >>,
   CurrentContext |-> credentials.Spec.Cluster.v.Server,
   Kind |-> "Config",
   Users |-> <<
     [Name |-> userinfo.Email,
      User |->
        [Token |-> "",
         Exec |->
           [Command |-> "metaplay",
            Args |-> << "environment", "get-kubernetes-execcredential",
                        "--stack-api", t.StackApiBaseURL,
                        "--environment", t.HumanId >>,
            ApiVersion |-> "client.authentication.k8s.io/v1beta1",
            InteractiveMode |-> "Never"]]] >>]

\* the KubeConfig literal with the bearer token of the exec credential's
\* status embedded in the user entry
KubeConfigOf_EmbeddedToken(t, credentials, environment, userinfo) ==
  [ApiVersion |-> "v1",
   Clusters |-> <<
     [Cluster |->
        [CertificateAuthorityData |->
           Base64EncodeToString(
             credentials.Spec.Cluster.v.CertificateAuthorityData),
         Server |-> credentials.Spec.Cluster.v.Server],
      Name |-> credentials.Spec.Cluster.v.Server] >>,
   Contexts |-> <<
     [Context |->
        [Cluster |-> credentials.Spec.Cluster.v.Server,
         Namespace |-> environment.Deployment.KubernetesNamespace,
         User |-> userinfo.Email],
      Name |-> t.HumanId] >>,
   CurrentContext |-> t.HumanId,
   Kind |-> "Config",
   Users |-> <<
     [Name |-> userinfo.Email,
      User |->
        [Token |-> credentials.Status.Token,
         Exec |->
           [Command |-> "metaplay",
            Args |-> << "environment", "get-kubernetes-execcredential",
                        "--stack-api", t.StackApiBaseURL,
                        "--environment", t.HumanId >>,
            ApiVersion |-> "client.authentication.k8s.io/v1beta1",
            InteractiveMode |-> "Never"]]] >>]

\* the KubeConfig literal of GetKubeConfigWithExecCredential
KubeConfigOf(t, credentials, environment, userinfo) ==
  [ApiVersion |-> "v1",
   Clusters |-> <<
     [Cluster |->
        [CertificateAuthorityData |->
           Base64EncodeToString(
             credentials.Spec.Cluster.v.CertificateAuthorityData),
         Server |-> credentials.Spec.Cluster.v.Server],
      Name |-> credentials.Spec.Cluster.v.Server] >>,
   Contexts |-> <<
     [Context |->
        [Cluster |-> credentials.Spec.Cluster.v.Server,
         Namespace |-> environment.Deployment.KubernetesNamespace,
         User |-> userinfo.Email],
      Name |-> t.HumanId] >>,
   CurrentContext |-> t.HumanId,
   Kind |-> "Config",
   Users |-> <<
     [Name |-> userinfo.Email,
      User |->
        [Token |-> "",
         Exec |->
           [Command |-> "metaplay",
            Args |-> << "environment", "get-kubernetes-execcredential",
                        "--stack-api", t.StackApiBaseURL,
                        "--environment", t.HumanId >>,
            ApiVersion |-> "client.authentication.k8s.io/v1beta1",
            InteractiveMode |-> "Never"]]] >>]

\* the check of the authorization data without the endpoint
EmptyAuthorization_NoEndpointCheck(data) ==
  \/ Len(data) = 0
  \/ IsNil(data[1].AuthorizationToken)

\* GetDockerCredentials, lines 320-324: the check of the authorization data
EmptyAuthorization(data) ==
  \/ Len(data) = 0
  \/ IsNil(data[1].AuthorizationToken)
  \/ IsNil(data[1].ProxyEndpoint)

\* lines 335-349: the credentials from the decoded token
SplitAuthorization(registryURL, parts) ==
  IF Len(parts) # 2
    THEN Return(Nil, Errorf("failed to parse authorization token"))
    ELSE Return(Ptr([Username |-> parts[1],
                     Password |-> parts[2],
                     RegistryURL |-> registryURL]), NoError)

\* lines 328-333: the token is base64 text
DecodeAuthorization(registryURL, d) ==
  IF IsError(d.err) THEN Return(Nil, d.err)
  ELSE SplitAuthorization(registryURL, SplitN2(d.bytes, Colon))

ParseAuthorization(data) ==
  IF EmptyAuthorization(data)
    THEN Return(Nil, Errorf(
           "received an empty authorization token response for ECR repository"))
  ELSE IF \/ Len(data) = 0
          \/ IsNil(data[1].AuthorizationToken)
          \/ IsNil(data[1].ProxyEndpoint)
    THEN Panic
  ELSE DecodeAuthorization(data[1].ProxyEndpoint.v,
         Base64DecodeString(data[1].AuthorizationToken.v))

(***************************************************************************)
(* The collaborators' answers.                                             *)
(***************************************************************************)
HumanIds == {"tiny-squids", "tough-falcons"}
StackApiBaseURL == "https://infra.stack.example/stackapi"
TheTokenSet == [AccessToken |-> "access-token"]
MetaBaseURL == "https://api.metaplay.io"

\* auth.FetchUserInfo
UserInfoError == LibError("*errors.errorString", "userinfo request failed")
UserInfoResults ==
  {[val |-> Nil, err |-> UserInfoError]}
    \cup {[val |-> Ptr([Email |-> e]), err |-> NoError] :
            e \in {"dev@example.com", "ops@example.com"}}

\* the envDetails argument of GetDockerCredentials
EnvDetailsArgs ==
  {Ptr([Deployment |-> [KubernetesNamespace |-> "ns-tiny-squids",
                        AwsRegion |-> "eu-west-1",
                        ServerHostname |-> "game.example"]])}

\* config.LoadDefaultConfig
LoadConfigError == LibError("*config.Error", "failed to load AWS config")
LoadConfigErrors == {NoError, LoadConfigError}

\* ecr GetAuthorizationToken
RegistryTokens ==
  {Nil, Ptr(<< BadChar >>), Ptr(<< 24, 16 >>),
   Ptr(Base64EncodeToString(SampleToken))}
    \cup {Ptr(Base64EncodeToString(t)) :
            t \in SeqsUpTo(TokenAlphabet, MaxTokenLen)}
RegistryEndpoints == {Nil, Ptr(""), Ptr("https://registry.example")}
AuthorizationEntries ==
  {[AuthorizationToken |-> t, ProxyEndpoint |-> e] :
     t \in RegistryTokens, e \in RegistryEndpoints}
SecondEntry ==
  [AuthorizationToken |-> Ptr(Base64EncodeToString(<< CharA, Colon >>)),
   ProxyEndpoint |-> Ptr("https://other.example")]
EcrError == LibError("*smithy.OperationError", "GetAuthorizationToken failed")
EcrResponses ==
  {[err |-> EcrError, AuthorizationData |-> << >>],
   [err |-> NoError, AuthorizationData |-> << >>]}
    \cup {[err |-> NoError, AuthorizationData |-> << e >>] :
            e \in AuthorizationEntries}
    \cup {[err |-> NoError, AuthorizationData |-> << e, SecondEntry >>] :
            e \in AuthorizationEntries}

(***************************************************************************)
(* State.                                                                  *)
(*   target  the TargetEnvironment                                         *)
(*   client  the metahttp.Client                                           *)
(*   op      the operation called last                                     *)
(*   pc      where the running operation stands; "idle" when none runs,    *)
(*           "done" when it has handed its result to the caller        *)
(*   locals  the running operation's local variables                       *)
(*   calls   the external calls the operation has issued, in order         *)
(*   exec    the last executor invocation: its inputs and what it did      *)
(*   reply   the last answer of a collaborator other than the control      *)
(*           plane (identity provider, AWS configuration, registry)        *)
(*   ret     what the operation returned                                   *)
(*   ctx     the caller's wish to go on: "live", or "cancelled" once the   *)
(*           caller has signalled cancellation of the running operation    *)
(*   seen    the last failure a caller observed: its failure mode and      *)
(*           the kind of the error it got                                  *)
(*                                                                         *)
(* State of checkDockerAvailable (cmd build docker-image).                 *)
(*   checkPc   where checkDockerAvailable stands                           *)
(*   goPc      where the goroutine it spawned stands                       *)
(*   cmdRet    what checkCommand returned in that goroutine                *)
(*   done      the unbuffered channel done: the values of the senders      *)
(*             blocked on it                                               *)
(*   timer     the seconds elapsed on the timer of time.After              *)
(*   checkRet  what checkDockerAvailable returned                          *)
(*   leaked    the goroutines of earlier invocations that have not         *)
(*             terminated                                                  *)
(*   runs      the invocations of checkDockerAvailable so far              *)
(*                                                                         *)
(* State of Run of 'remove botclients' and 'remove game-server'.           *)
(*   rmPc      where Run stands                                            *)
(*   rmCmd     which of the two commands runs                              *)
(*   rmLocals  Run's local variables                                       *)
(*   rmCalls   the calls Run has made to the broker and to helmutil, in    *)
(*             order                                                       *)
(*   rmRet     how Run ended: a return, an os.Exit or a panic              *)
(*                                                                         *)
(* State of Run of 'build docker-image'.                                   *)
(*   buildPc      where Run stands                                         *)
(*   buildOpts    the options, the project and the process environment     *)
(*   buildLocals  Run's local variables                                    *)
(*   buildCalls   the calls Run has made, in order, with their results     *)
(*   buildRet     how Run ended: a return, an os.Exit or a panic           *)
(***************************************************************************)
VARIABLES target, client, op, pc, locals, calls, exec, reply, ret, ctx, seen,
          checkPc, goPc, cmdRet, done, timer, checkRet, leaked, runs,
          rmPc, rmCmd, rmLocals, rmCalls, rmRet,
          buildPc, buildOpts, buildLocals, buildCalls, buildRet
brokerVars ==
  << target, client, op, pc, locals, calls, exec, reply, ret, ctx, seen >>
dockerVars ==
  << checkPc, goPc, cmdRet, done, timer, checkRet, leaked, runs >>
removeVars == << rmPc, rmCmd, rmLocals, rmCalls, rmRet >>
buildVars == << buildPc, buildOpts, buildLocals, buildCalls, buildRet >>
vars == << brokerVars, dockerVars, removeVars, buildVars >>

NoLocals == [none |-> TRUE]
NoExec == [fn |-> "none"]
NoReply == [from |-> "none"]

Exec(fn, T, method, path, resp, out) ==
  [fn |-> fn, T |-> T, method |-> method, path |-> path, resp |-> resp,
   out |-> out]

UserInfoCall(tokenSet) == [call |-> "auth.FetchUserInfo", tokenSet |-> tokenSet]
LoadConfigCall(region) == [call |-> "config.LoadDefaultConfig", region |-> region]
EcrCall(cfg) == [call |-> "ecr.GetAuthorizationToken", cfg |-> cfg]

NoFailure == [mode |-> "none", kind |-> << >>]

\* no broker operation has been called on the constructed target
InitBroker ==
  /\ target \in {NewTargetEnvironment(TheTokenSet, StackApiBaseURL, h) :
                   h \in HumanIds}
  /\ client = [TokenSet |-> TheTokenSet, BaseURL |-> MetaBaseURL]
  /\ op = "none"
  /\ pc = "idle"
  /\ locals = NoLocals
  /\ calls = << >>
  /\ exec = NoExec
  /\ reply = NoReply
  /\ ret = NoReturn
  /\ ctx = "live"
  /\ seen = NoFailure

\* checkCommand has not returned yet
Pending == [tag |-> "pending"]

\* checkDockerAvailable has not been called
InitDocker ==
  /\ checkPc = "idle"
  /\ goPc = "none"
  /\ cmdRet = Pending
  /\ done = << >>
  /\ timer = 0
  /\ checkRet = NoError
  /\ leaked = 0
  /\ runs = 0

\* how a command's Run ended: it is still running, it returned err, it
\* called os.Exit(code), or it panicked
CmdRunning == [kind |-> "running", err |-> NoError, code |-> 0]
CmdReturn(err) == [kind |-> "return", err |-> err, code |-> 0]
OsExit(code) == [kind |-> "exit", err |-> NoError, code |-> code]
CmdPanic == [kind |-> "panic", err |-> NoError, code |-> 0]

\* no remove command has been run
InitRemove ==
  /\ rmPc = "idle"
  /\ rmCmd = "none"
  /\ rmLocals = NoLocals
  /\ rmCalls = << >>
  /\ rmRet = CmdRunning

\* 'build docker-image' has not been run
InitBuild ==
  /\ buildPc = "idle"
  /\ buildOpts = NoLocals
  /\ buildLocals = NoLocals
  /\ buildCalls = << >>
  /\ buildRet = CmdRunning

Init == InitBroker /\ InitDocker /\ InitRemove /\ InitBuild

\* an operation that stores a refreshed token set on the target
Frame_TokenRefreshed ==
  /\ target' = [target EXCEPT !.TokenSet = [AccessToken |-> "refreshed"]]
  /\ client' = client

\* no method of TargetEnvironment and neither executor assigns a field of
\* the target or of the client
Frame == UNCHANGED << target, client >>

\* the operation name ends with r (a return or a panic); its locals are
\* those of the moment it ended
Finish(name, r) ==
  /\ op' = name
  /\ pc' = "done"
  /\ ret' = r

\* an operation that is one executor call o, whose result it hands on as r
Single(name, T, method, path, resp, o, r) ==
  /\ exec' = Exec("httpRequest", T, method, path, resp, o)
  /\ calls' = o.sent
  /\ reply' = NoReply
  /\ locals' = NoLocals
  /\ Finish(name, r)

CallGetDetails ==
  /\ pc = "idle"
  /\ \E resp \in Responses("EnvironmentDetails") :
       Single("GetDetails", "EnvironmentDetails", "GET",
              DetailsPath(target.HumanId), resp,
              HttpGetRequest("EnvironmentDetails",
                             DetailsPath(target.HumanId), resp),
              GetDetails(HttpGetRequest("EnvironmentDetails",
                                        DetailsPath(target.HumanId), resp)))
  /\ Frame
  /\ UNCHANGED << ctx, seen, dockerVars, removeVars, buildVars >>

CallGetKubeConfigWithEmbeddedCredentials ==
  /\ pc = "idle"
  /\ \E resp \in Responses("string") :
       Single("GetKubeConfigWithEmbeddedCredentials", "string", "POST",
              K8sPath(target.HumanId), resp,
              HttpPostRequest("string", K8sPath(target.HumanId), resp),
              GetKubeConfigWithEmbeddedCredentials(
                HttpPostRequest("string", K8sPath(target.HumanId), resp)))
  /\ Frame
  /\ UNCHANGED << ctx, seen, dockerVars, removeVars, buildVars >>

CallGetKubeExecCredential ==
  /\ pc = "idle"
  /\ \E resp \in Responses("string") :
       Single("GetKubeExecCredential", "string", "POST",
              ExecCredentialPath(target.HumanId), resp,
              HttpPostRequest("string", ExecCredentialPath(target.HumanId),
                              resp),
              GetKubeExecCredential(
                HttpPostRequest("string", ExecCredentialPath(target.HumanId),
                                resp)))
  /\ Frame
  /\ UNCHANGED << ctx, seen, dockerVars, removeVars, buildVars >>

CallGetAWSCredentials ==
  /\ pc = "idle"
  /\ \E resp \in Responses("AWSCredentials") :
       Single("GetAWSCredentials", "AWSCredentials", "POST",
              AWSPath(target.HumanId), resp,
              HttpPostRequest("AWSCredentials", AWSPath(target.HumanId), resp),
              GetAWSCredentials(
                HttpPostRequest("AWSCredentials", AWSPath(target.HumanId),
                                resp)))
  /\ Frame
  /\ UNCHANGED << ctx, seen, dockerVars, removeVars, buildVars >>

(***************************************************************************)
(* GetKubeConfigWithExecCredential, one action per external call.          *)
(***************************************************************************)
\* lines 196-203: what follows the exec-credential POST o
AfterExecCredential(o) ==
  IF IsError(o.err)
    THEN /\ Finish("GetKubeConfigWithExecCredential", Return(Nil, o.err))
         /\ locals' = NoLocals
  ELSE IF IsNil(o.val) \/ IsNil(o.val.v.Spec.Cluster)
    THEN /\ Finish("GetKubeConfigWithExecCredential", Panic)
         /\ locals' = NoLocals
  ELSE IF MissingCluster(o.val.v)
    THEN /\ Finish("GetKubeConfigWithExecCredential",
                   Return(Nil, Errorf(
                     "Received kubeExecCredential with missing spec.cluster")))
         /\ locals' = [credentials |-> o.val.v]
  ELSE /\ op' = "GetKubeConfigWithExecCredential"
       /\ pc' = "kubeconfig_details"
       /\ locals' = [credentials |-> o.val.v]
       /\ ret' = NoReturn

\* lines 193-203: the exec-credential POST and the check of spec.cluster
KubeConfigPost ==
  /\ pc = "idle"
  /\ \E resp \in Responses("KubeExecCredential") :
       /\ exec' = Exec("httpRequest", "KubeExecCredential", "POST",
                       ExecCredentialPath(target.HumanId), resp,
                       HttpPostRequest("KubeExecCredential",
                         ExecCredentialPath(target.HumanId), resp))
       /\ calls' = exec'.out.sent
       /\ reply' = NoReply
       /\ AfterExecCredential(exec'.out)
  /\ Frame
  /\ UNCHANGED << ctx, seen, dockerVars, removeVars, buildVars >>

\* lines 206-213: what follows GetDetails, which returned r
AfterDetails(r) ==
  IF IsError(r.err)
    THEN Finish(op, Return(Nil, r.err)) /\ UNCHANGED locals
  ELSE IF IsNil(r.val)
    THEN Finish(op, Panic) /\ UNCHANGED locals
  ELSE IF MissingNamespace(r.val.v)
    THEN /\ Finish(op, Return(Nil, Errorf(
             "Environment details did not contain a valid Kubernetes namespace")))
         /\ locals' = [credentials |-> locals.credentials,
                       environment |-> r.val.v]
  ELSE /\ pc' = "kubeconfig_userinfo"
       /\ locals' = [credentials |-> locals.credentials,
                     environment |-> r.val.v]
       /\ UNCHANGED << op, ret >>

\* lines 205-213: GetDetails and the check of the namespace
KubeConfigDetails ==
  /\ pc = "kubeconfig_details"
  /\ \E resp \in Responses("EnvironmentDetails") :
       /\ exec' = Exec("httpRequest", "EnvironmentDetails", "GET",
                       DetailsPath(target.HumanId), resp,
                       HttpGetRequest("EnvironmentDetails",
                         DetailsPath(target.HumanId), resp))
       /\ calls' = calls \o exec'.out.sent
       /\ reply' = NoReply
       /\ AfterDetails(GetDetails(exec'.out))
  /\ Frame
  /\ UNCHANGED << ctx, seen, dockerVars, removeVars, buildVars >>

\* lines 215-268: the user-info lookup and the assembly of the kubeconfig
KubeConfigUserInfo ==
  /\ pc = "kubeconfig_userinfo"
  /\ \E u \in UserInfoResults :
       /\ calls' = Append(calls, UserInfoCall(target.TokenSet))
       /\ reply' = [from |-> "auth.FetchUserInfo", val |-> u.val,
                    err |-> u.err]
       /\ IF IsError(u.err)
            THEN Finish(op, Return(Nil,
                   ErrorfW("Failed to fetch userinfo: %w", u.err)))
            ELSE Finish(op, Return(
                   Ptr([yaml |-> MarshalKubeConfig(
                          KubeConfigOf(target, locals.credentials,
                                       locals.environment, u.val.v))]),
                   NoError))
  /\ Frame
  /\ UNCHANGED << exec, locals, ctx, seen, dockerVars, removeVars,
                  buildVars >>

CallGetKubeConfigWithExecCredential ==
  KubeConfigPost \/ KubeConfigDetails \/ KubeConfigUserInfo

(***************************************************************************)
(* GetDockerCredentials, one action per external call.                     *)
(***************************************************************************)
\* what follows GetAWSCredentials with its error ignored
AfterAWSCredentials_ErrIgnored(r, envDetails) ==
  IF r.kind = "panic"
    THEN /\ Finish("GetDockerCredentials", Panic)
         /\ locals' = [envDetails |-> envDetails]
  ELSE /\ op' = "GetDockerCredentials"
       /\ pc' = "docker_config"
       /\ locals' = [awsCredentials |-> r.val, envDetails |-> envDetails]
       /\ ret' = NoReturn

\* lines 288-291: what follows GetAWSCredentials, which returned r
AfterAWSCredentials(r, envDetails) ==
  IF r.kind = "panic"
    THEN /\ Finish("GetDockerCredentials", Panic)
         /\ locals' = [envDetails |-> envDetails]
  ELSE IF IsError(r.err)
    THEN /\ Finish("GetDockerCredentials", Return(Nil,
             ErrorfV("failed to get AWS credentials: %v", r.err)))
         /\ locals' = [envDetails |-> envDetails]
  ELSE /\ op' = "GetDockerCredentials"
       /\ pc' = "docker_config"
       /\ locals' = [awsCredentials |-> r.val, envDetails |-> envDetails]
       /\ ret' = NoReturn

\* lines 286-291: GetAWSCredentials
DockerAWSCredentials ==
  /\ pc = "idle"
  /\ \E resp \in Responses("AWSCredentials"), envDetails \in EnvDetailsArgs :
       /\ exec' = Exec("httpRequest", "AWSCredentials", "POST",
                       AWSPath(target.HumanId), resp,
                       HttpPostRequest("AWSCredentials",
                         AWSPath(target.HumanId), resp))
       /\ calls' = exec'.out.sent
       /\ reply' = NoReply
       /\ AfterAWSCredentials(GetAWSCredentials(exec'.out), envDetails)
  /\ Frame
  /\ UNCHANGED << ctx, seen, dockerVars, removeVars, buildVars >>

\* the aws.Config made of the region and the static credentials provider
AWSConfig(envDetails, awsCredentials) ==
  [Region |-> envDetails.v.Deployment.AwsRegion,
   Credentials |-> [AccessKeyID |-> awsCredentials.v.AccessKeyId,
                    SecretAccessKey |-> awsCredentials.v.SecretAccessKey,
                    SessionToken |-> awsCredentials.v.SessionToken]]

\* lines 293-311: the AWS config with the static credentials, the client
DockerLoadConfig ==
  /\ pc = "docker_config"
  /\ \E err \in LoadConfigErrors :
       /\ calls' = Append(calls,
            LoadConfigCall(locals.envDetails.v.Deployment.AwsRegion))
       /\ reply' = [from |-> "config.LoadDefaultConfig", err |-> err]
       /\ IF IsError(err)
            THEN Finish(op, Return(Nil, err)) /\ UNCHANGED locals
            ELSE /\ pc' = "docker_token"
                 /\ locals' =
                      [awsCredentials |-> locals.awsCredentials,
                       envDetails |-> locals.envDetails,
                       cfg |-> AWSConfig(locals.envDetails,
                                         locals.awsCredentials)]
                 /\ UNCHANGED << op, ret >>
  /\ Frame
  /\ UNCHANGED << exec, ctx, seen, dockerVars, removeVars, buildVars >>

\* lines 313-349: the authorization token request and its parsing
DockerAuthorizationToken ==
  /\ pc = "docker_token"
  /\ \E response \in EcrResponses :
       /\ calls' = Append(calls, EcrCall(locals.cfg))
       /\ reply' = [from |-> "ecr.GetAuthorizationToken",
                    AuthorizationData |-> response.AuthorizationData,
                    err |-> response.err]
       /\ IF IsError(response.err)
            THEN Finish(op, Return(Nil, response.err))
            ELSE Finish(op, ParseAuthorization(response.AuthorizationData))
  /\ Frame
  /\ UNCHANGED << exec, locals, ctx, seen, dockerVars, removeVars,
                  buildVars >>

CallGetDockerCredentials ==
  DockerAWSCredentials \/ DockerLoadConfig \/ DockerAuthorizationToken

(***************************************************************************)
(* The executors called on their own, with every method and result type.   *)
(***************************************************************************)
ExecutorPath == "/v0/path"

CallHttpRequest ==
  /\ pc = "idle"
  /\ \E T \in Types, method \in Methods :
       \E resp \in Responses(T) :
         /\ exec' = Exec("httpRequest", T, method, ExecutorPath, resp,
                         HttpRequest(T, method, ExecutorPath, resp))
         /\ calls' = exec'.out.sent
         /\ reply' = NoReply
         /\ locals' = NoLocals
         /\ Finish("httpRequest", [kind |-> exec'.out.kind,
                                   val |-> exec'.out.val,
                                   err |-> exec'.out.err])
  /\ Frame
  /\ UNCHANGED << ctx, seen, dockerVars, removeVars, buildVars >>

CallRequest ==
  /\ pc = "idle"
  /\ \E T \in Types, method \in Methods :
       \E resp \in Responses(T) :
         /\ exec' = Exec("Request", T, method, ExecutorPath, resp,
                         Request(T, client.BaseURL, method, ExecutorPath,
                                 resp))
         /\ calls' = exec'.out.sent
         /\ reply' = NoReply
         /\ locals' = NoLocals
         /\ Finish("Request", [kind |-> exec'.out.kind,
                               val |-> exec'.out.val,
                               err |-> exec'.out.err])
  /\ Frame
  /\ UNCHANGED << ctx, seen, dockerVars, removeVars, buildVars >>

\* the failure mode of the operation that has just returned an error, from
\* the step that ended it
FailureMode ==
  IF reply.from = "auth.FetchUserInfo" THEN "identity resolution"
  ELSE IF reply.from = "config.LoadDefaultConfig" THEN "AWS configuration"
  ELSE IF reply.from = "ecr.GetAuthorizationToken"
    THEN IF IsError(reply.err) THEN "registry request"
         ELSE IF EmptyAuthorization(reply.AuthorizationData)
           THEN "empty authorization token"
         ELSE "token parse"
  ELSE IF op = "GetDockerCredentials" THEN "upstream credential"
  ELSE IF IsError(exec.resp.err) THEN "transport"
  ELSE IF BadStatus(exec.resp.status) THEN "bad status"
  ELSE IF IsError(exec.out.err) THEN "decode"
  ELSE IF op = "GetAWSCredentials" THEN "incomplete AWS credential"
  ELSE IF exec.T = "KubeExecCredential" THEN "missing cluster info"
  ELSE "missing namespace"

\* the caller signals cancellation while an operation that chains several
\* network calls is under way; no operation takes a context, the requests
\* are built without one and the AWS calls are given context.TODO()
Cancel ==
  /\ pc \in {"kubeconfig_details", "kubeconfig_userinfo", "docker_config",
              "docker_token"}
  /\ ctx = "live"
  /\ ctx' = "cancelled"
  /\ UNCHANGED << target, client, op, pc, locals, calls, exec, reply, ret,
                  seen, dockerVars, removeVars, buildVars >>

\* the caller has looked at the result and drops it; nothing of the call is
\* kept but what the caller saw of a failure
Discard ==
  /\ pc = "done"
  /\ op' = "none"
  /\ pc' = "idle"
  /\ locals' = NoLocals
  /\ calls' = << >>
  /\ exec' = NoExec
  /\ reply' = NoReply
  /\ ret' = NoReturn
  /\ ctx' = "live"
  /\ seen' = IF ret.kind = "return" /\ IsError(ret.err)
               THEN [mode |-> FailureMode, kind |-> Kind(ret.err)]
               ELSE seen
  /\ UNCHANGED << target, client, dockerVars, removeVars, buildVars >>

Next ==
  \/ CallGetDetails
  \/ CallGetKubeConfigWithEmbeddedCredentials
  \/ CallGetKubeExecCredential
  \/ CallGetAWSCredentials
  \/ CallGetKubeConfigWithExecCredential
  \/ CallGetDockerCredentials
  \/ CallHttpRequest
  \/ CallRequest
  \/ Cancel
  \/ Discard

Spec == Init /\ [][Next]_vars

(***************************************************************************)
(* checkDockerAvailable (cmd build docker-image): 'docker info' is run in  *)
(* a goroutine that sends its result on the unbuffered channel done, and   *)
(* the function selects between receiving from done and a timer.           *)
(***************************************************************************)
\* the invocations of checkDockerAvailable that are followed
MaxRuns == 2

\* case <-time.After(5 * time.Second)
TimeoutSeconds == 5

\* what cmd.Run() of 'docker info' can return
ExecNotFound == LibError("*exec.Error", "executable file not found in $PATH")
ExitError == LibError("*exec.ExitError", "exit status 1")
RunResults == {NoError, ExecNotFound, ExitError}

\* checkCommand, from what cmd.Run() returned
CheckCommand(err) ==
  IF IsError(err) THEN ErrorfV("command failed: %v", err) ELSE NoError

\* the select's first case with the received error dropped
SelectDone_ErrorDropped(err) == NoError

\* case err := <-done: what checkDockerAvailable returns
SelectDone(err) ==
  IF IsError(err)
    THEN ErrorfW(
      "docker is not available: %w. Ensure docker is installed and working.",
      err)
    ELSE NoError

\* case <-time.After(...): what checkDockerAvailable returns
SelectTimeout ==
  Errorf(
    "docker availablity check timed out. Ensure docker is running and responsive.")

\* checkDockerAvailable is called: the channel is made, the goroutine
\* spawned, the timer started; a goroutine of an earlier invocation that
\* has not terminated stays as it is
CheckStart ==
  /\ checkPc \in {"idle", "returned"}
  /\ runs < MaxRuns
  /\ checkPc' = "select"
  /\ goPc' = "run"
  /\ cmdRet' = Pending
  /\ done' = << >>
  /\ timer' = 0
  /\ checkRet' = NoError
  /\ leaked' = IF goPc \in {"run", "send"} THEN leaked + 1 ELSE leaked
  /\ runs' = runs + 1
  /\ UNCHANGED << brokerVars, removeVars,
                  buildVars >>

\* the goroutine: checkCommand("docker", "info") returns and the goroutine
\* reaches its send on done
CommandReturns ==
  /\ goPc = "run"
  /\ \E err \in RunResults :
       /\ cmdRet' = CheckCommand(err)
       /\ done' = << CheckCommand(err) >>
  /\ goPc' = "send"
  /\ UNCHANGED << checkPc, timer, checkRet, leaked, runs, brokerVars, removeVars,
                  buildVars >>

\* a second passes on the timer while the select waits
Tick ==
  /\ checkPc = "select"
  /\ timer < TimeoutSeconds
  /\ timer' = timer + 1
  /\ UNCHANGED << checkPc, goPc, cmdRet, done, checkRet, leaked, runs,
                  brokerVars, removeVars,
                  buildVars >>

\* the select takes the value of the sender blocked on done: the send
\* completes, the goroutine ends, checkDockerAvailable returns
Receive ==
  /\ checkPc = "select"
  /\ done # << >>
  /\ checkPc' = "returned"
  /\ checkRet' = SelectDone(done[1])
  /\ done' = << >>
  /\ goPc' = "exited"
  /\ UNCHANGED << cmdRet, timer, leaked, runs, brokerVars, removeVars,
                  buildVars >>

\* the select takes the timer's value: checkDockerAvailable returns and
\* nothing receives from done any more
TimeoutFires ==
  /\ checkPc = "select"
  /\ timer = TimeoutSeconds
  /\ checkPc' = "returned"
  /\ checkRet' = SelectTimeout
  /\ UNCHANGED << goPc, cmdRet, done, timer, leaked, runs, brokerVars, removeVars,
                  buildVars >>

DockerInit ==
  /\ InitBroker
  /\ target.HumanId = "tiny-squids"
  /\ InitDocker
  /\ InitRemove
  /\ InitBuild

DockerNext ==
  \/ CheckStart
  \/ CommandReturns
  \/ Tick
  \/ Receive
  \/ TimeoutFires

\* the runtime's timer advances, and a goroutine blocked in a select takes
\* a case when one is ready; nothing makes 'docker info' return
DockerSpec ==
  /\ DockerInit
  /\ [][DockerNext]_vars
  /\ WF_vars(Tick)
  /\ WF_vars(Receive \/ TimeoutFires)

(***************************************************************************)
(* Run of 'remove botclients' and of 'remove game-server'.                 *)
(***************************************************************************)
\* the Helm releases HelmListReleases can find
MaxReleases == 2

RemoveCommands == {"botclients", "game-server"}

\* the steps before the kubeconfig is fetched, each of which can fail:
\* tryResolveProject, tui.RequireLoggedIn, resolveEnvironment
ResolveSteps == << "tryResolveProject", "RequireLoggedIn", "resolveEnvironment" >>
ResolveError(step) == LibError("*errors.errorString", step \o " failed")

\* helmutil.NewActionConfig: it returns an action configuration or an
\* error; what it does with a nil kubeconfig is its own, so it may as well
\* dereference it
NewActionConfigOutcomes(kubeconfigPayload) ==
  {"config", "error"} \cup (IF IsNil(kubeconfigPayload) THEN {"panic"} ELSE {})

\* helmutil.HelmListReleases: the releases of the chart, and an error
ReleaseLists ==
  {l \in UNION {[1..n -> {"release-a", "release-b", "release-c"}] :
                  n \in 0..MaxReleases} :
     \A i, j \in 1..Len(l) : l[i] = l[j] => i = j}
Release(name) == [Name |-> name]
ListErrors == {NoError, LibError("*errors.errorString", "list failed")}

\* helmutil.UninstallRelease
UninstallErrors == {NoError, LibError("*errors.errorString", "uninstall failed")}

KubeConfigCall(path, r) ==
  [call |-> "GetKubeConfigWithEmbeddedCredentials", path |-> path,
   val |-> r.val, err |-> r.err]
NewActionConfigCall(kubeconfigPayload) ==
  [call |-> "helmutil.NewActionConfig", kubeconfig |-> kubeconfigPayload]
HelmListReleasesCall == [call |-> "helmutil.HelmListReleases"]
UninstallReleaseCall(release, err) ==
  [call |-> "helmutil.UninstallRelease", release |-> release.Name,
   err |-> err]

\* an empty list of releases taken for success
NoReleasesFound_Success(cmd) == CmdReturn(NoError)

\* len(helmReleases) == 0
NoReleasesFound(cmd) ==
  IF cmd = "botclients"
    THEN CmdReturn(Errorf("no existing bots deployment found"))
    ELSE OsExit(0)

\* UninstallRelease returned err for release
UninstallFailed(cmd, release, err) ==
  IF cmd = "botclients"
    THEN CmdReturn(
      [ErrorfW("failed to uninstall Helm relese %s: %w", err)
         EXCEPT !.msg = "failed to uninstall Helm relese " \o release.Name
                          \o ": " \o err.msg])
    ELSE OsExit(1)

\* the command is run: the project, the login and the environment are
\* resolved, and the target environment is constructed
RemoveResolve ==
  /\ rmPc = "idle"
  /\ \E cmd \in RemoveCommands :
       /\ rmCmd' = cmd
       /\ \/ \E i \in 1..Len(ResolveSteps) :
               /\ rmPc' = "done"
               /\ rmRet' = CmdReturn(ResolveError(ResolveSteps[i]))
               /\ rmLocals' = rmLocals
          \/ \E h \in HumanIds :
               /\ rmPc' = "kubeconfig"
               /\ rmRet' = rmRet
               /\ rmLocals' =
                    [targetEnv |->
                       NewTargetEnvironment(TheTokenSet, StackApiBaseURL, h)]
  /\ UNCHANGED << rmCalls, brokerVars, dockerVars, buildVars >>

\* kubeconfigPayload, err := targetEnv.GetKubeConfigWithEmbeddedCredentials()
\* and the debug log line after it
RemoveKubeConfig ==
  /\ rmPc = "kubeconfig"
  /\ \E resp \in Responses("string") :
       LET path == K8sPath(rmLocals.targetEnv.HumanId)
           r == GetKubeConfigWithEmbeddedCredentials(
                  HttpPostRequest("string", path, resp))
       IN /\ rmCalls' = Append(rmCalls, KubeConfigCall(path, r))
          /\ rmLocals' = [targetEnv |-> rmLocals.targetEnv,
                          kubeconfigPayload |-> r.val,
                          err |-> r.err]
  /\ rmPc' = "helm"
  /\ UNCHANGED << rmCmd, rmRet, brokerVars, dockerVars, buildVars >>

\* actionConfig, err := helmutil.NewActionConfig(kubeconfigPayload, ...)
RemoveHelmConfig ==
  /\ rmPc = "helm"
  /\ rmCalls' = Append(rmCalls, NewActionConfigCall(rmLocals.kubeconfigPayload))
  /\ \E out \in NewActionConfigOutcomes(rmLocals.kubeconfigPayload) :
       \/ /\ out = "config"
          /\ rmPc' = "list"
          /\ rmRet' = rmRet
       \/ /\ out = "error"
          /\ rmPc' = "done"
          /\ rmRet' = OsExit(1)
       \/ /\ out = "panic"
          /\ rmPc' = "done"
          /\ rmRet' = CmdPanic
  /\ UNCHANGED << rmCmd, rmLocals, brokerVars, dockerVars, buildVars >>

\* helmReleases, err := helmutil.HelmListReleases(actionConfig, chart) and
\* the test of len(helmReleases)
RemoveListReleases ==
  /\ rmPc = "list"
  /\ rmCalls' = Append(rmCalls, HelmListReleasesCall)
  /\ \E names \in ReleaseLists, err \in ListErrors :
       /\ rmLocals' = [targetEnv |-> rmLocals.targetEnv,
                       kubeconfigPayload |-> rmLocals.kubeconfigPayload,
                       helmReleases |->
                         [i \in 1..Len(names) |-> Release(names[i])],
                       err |-> err,
                       next |-> 1]
       /\ IF Len(names) = 0
            THEN /\ rmPc' = "done"
                 /\ rmRet' = NoReleasesFound(rmCmd)
            ELSE /\ rmPc' = "uninstall"
                 /\ rmRet' = rmRet
  /\ UNCHANGED << rmCmd, brokerVars, dockerVars, buildVars >>

\* one iteration of the loop over helmReleases, and the return after the
\* last one
RemoveUninstall ==
  /\ rmPc = "uninstall"
  /\ LET release == rmLocals.helmReleases[rmLocals.next]
     IN \E err \in UninstallErrors :
          /\ rmCalls' = Append(rmCalls, UninstallReleaseCall(release, err))
          /\ IF IsError(err)
               THEN /\ rmPc' = "done"
                    /\ rmRet' = UninstallFailed(rmCmd, release, err)
                    /\ rmLocals' = rmLocals
               ELSE /\ rmLocals' = [rmLocals EXCEPT !.next = @ + 1]
                    /\ IF rmLocals.next = Len(rmLocals.helmReleases)
                         THEN /\ rmPc' = "done"
                              /\ rmRet' = CmdReturn(NoError)
                         ELSE /\ rmPc' = "uninstall"
                              /\ rmRet' = rmRet
  /\ UNCHANGED << rmCmd, brokerVars, dockerVars, buildVars >>

RemoveInit ==
  /\ InitBroker
  /\ target.HumanId = "tiny-squids"
  /\ InitDocker
  /\ InitRemove
  /\ InitBuild

RemoveNext ==
  \/ RemoveResolve
  \/ RemoveKubeConfig
  \/ RemoveHelmConfig
  \/ RemoveListReleases
  \/ RemoveUninstall

RemoveSpec == RemoveInit /\ [][RemoveNext]_vars

(***************************************************************************)
(* Run of 'build docker-image'.  Strings that Run inspects are sequences   *)
(* of characters.                                                          *)
(***************************************************************************)
Latest == << ":", "l", "a", "t", "e", "s", "t" >>
TimestampTag == << "<", "t", "i", "m", "e", "s", "t", "a", "m", "p", ">" >>
ProjectIDTag == << "<", "p", "r", "o", "j", "e", "c", "t", "I", "D", ">" >>

\* strings.HasSuffix
HasSuffix(s, suffix) ==
  /\ Len(s) >= Len(suffix)
  /\ SubSeq(s, Len(s) - Len(suffix) + 1, Len(s)) = suffix

\* strings.Replace(s, old, new, -1) for a non-empty old
RECURSIVE StrReplace(_, _, _)
StrReplace(s, old, new) ==
  IF Len(s) < Len(old) THEN s
  ELSE IF SubSeq(s, 1, Len(old)) = old
    THEN new \o StrReplace(SubSeq(s, Len(old) + 1, Len(s)), old, new)
    ELSE << Head(s) >> \o StrReplace(Tail(s), old, new)

\* the image name Run builds: <timestamp> and <projectID> filled in
ResolveImageName(argImageName, timestamp, projectID) ==
  StrReplace(StrReplace(argImageName, TimestampTag, timestamp),
             ProjectIDTag, projectID)

\* contains
Contains(slice, value) == \E i \in 1..Len(slice) : slice[i] = value

ValidArchitectures == << "amd64", "arm64" >>
ValidBuildEngines == << "buildx", "buildkit" >>

\* resolveBuildEngine accepting whatever engine is named
ResolveBuildEngine_AnyEngine(engine, bitbucket) ==
  IF engine = ""
    THEN Return(IF bitbucket THEN "buildkit" ELSE "buildx", NoError)
    ELSE Return(engine, NoError)

\* resolveBuildEngine; bitbucket: BITBUCKET_PIPELINE_UUID is set in the
\* process environment
ResolveBuildEngine(engine, bitbucket) ==
  IF engine = ""
    THEN Return(IF bitbucket THEN "buildkit" ELSE "buildx", NoError)
    ELSE IF Contains(ValidBuildEngines, engine)
      THEN Return(engine, NoError)
      ELSE Return("",
                  ErrorfV("invalid Docker build engine '%s', must be one of: %v",
                          engine))

\* the arguments and the environment the build engine adds
BuildEngineArgs(buildEngine) ==
  IF buildEngine = "buildkit"
    THEN [kind |-> "args", args |-> << "build" >>, buildkit |-> TRUE]
  ELSE IF buildEngine = "buildx"
    THEN [kind |-> "args", args |-> << "buildx", "build", "--load" >>,
          buildkit |-> FALSE]
  ELSE [kind |-> "panic", args |-> << >>, buildkit |-> FALSE]

\* what the user, the project and the process environment can give
ImageNames ==
  { << "g", ":" >> \o TimestampTag,
    << "g" >> \o Latest,
    << "g" >> \o Latest \o << "1" >>,
    << "g", ":" >> \o ProjectIDTag,
    ProjectIDTag }
Timestamp == << "1", "7" >>
BuildOptions ==
  [argImageName : ImageNames,
   projectID : { << "p" >>, << "l", "a", "t", "e", "s", "t" >> },
   flagArchitecture : {"amd64", "arm64", "x86"},
   flagBuildEngine : {"", "buildx", "buildkit", "docker"},
   bitbucket : BOOLEAN]

\* the directories and the file Run looks for with os.Stat
StatTargets == << "sdkRoot", "Dockerfile.server", "backendDir", "sharedCodeDir" >>

BuildCall(name, arg, result) == [call |-> name, arg |-> arg, result |-> result]

\* the command is run: resolveProject
BuildResolveProject ==
  /\ buildPc = "idle"
  /\ \E o \in BuildOptions :
       /\ buildOpts' = o
       /\ \E err \in {NoError, ResolveError("resolveProject")} :
            /\ buildCalls' = Append(buildCalls, BuildCall("resolveProject", o.projectID, err))
            /\ IF IsError(err)
                 THEN buildPc' = "done" /\ buildRet' = CmdReturn(err)
                 ELSE buildPc' = "image" /\ buildRet' = buildRet
  /\ UNCHANGED << buildLocals, brokerVars, dockerVars, removeVars >>

\* the image name is resolved and must not carry the tag latest
BuildImageName ==
  /\ buildPc = "image"
  /\ LET imageName == ResolveImageName(buildOpts.argImageName, Timestamp,
                                       buildOpts.projectID)
         latest == HasSuffix(imageName, Latest)
     IN /\ buildLocals' = [imageName |-> imageName]
        /\ buildCalls' = Append(buildCalls,
                                BuildCall("strings.HasSuffix", imageName, latest))
        /\ IF latest
             THEN buildPc' = "done" /\ buildRet' = OsExit(1)
             ELSE buildPc' = "stat" /\ buildRet' = buildRet
  /\ UNCHANGED << buildOpts, brokerVars, dockerVars, removeVars >>

\* the os.Stat checks of the SDK directory, Dockerfile.server, the backend
\* directory and the shared code directory: missing is the first of them
\* that does not exist, 0 when all exist
BuildCheckDirs ==
  /\ buildPc = "stat"
  /\ \E missing \in 0..Len(StatTargets) :
       /\ buildCalls' =
            Append(buildCalls,
                   BuildCall("os.Stat",
                             IF missing = 0 THEN "all" ELSE StatTargets[missing],
                             missing = 0))
       /\ IF missing # 0
            THEN buildPc' = "done" /\ buildRet' = OsExit(2)
            ELSE buildPc' = "architecture" /\ buildRet' = buildRet
  /\ UNCHANGED << buildOpts, buildLocals, brokerVars, dockerVars, removeVars >>

\* the target platform
BuildArchitecture ==
  /\ buildPc = "architecture"
  /\ LET valid == Contains(ValidArchitectures, buildOpts.flagArchitecture)
     IN /\ buildCalls' = Append(buildCalls,
                                BuildCall("contains", buildOpts.flagArchitecture,
                                          valid))
        /\ IF valid
             THEN /\ buildPc' = "docker"
                  /\ buildRet' = buildRet
                  /\ buildLocals' =
                       [imageName |-> buildLocals.imageName,
                        platform |-> buildOpts.flagArchitecture]
             ELSE /\ buildPc' = "done"
                  /\ buildRet' = OsExit(2)
                  /\ buildLocals' = buildLocals
  /\ UNCHANGED << buildOpts, brokerVars, dockerVars, removeVars >>

\* err = checkDockerAvailable(): the call
BuildCheckDocker ==
  /\ buildPc = "docker"
  /\ checkPc = "idle"
  /\ CheckStart

\* err = checkDockerAvailable(): what it returned
BuildDockerChecked ==
  /\ buildPc = "docker"
  /\ checkPc = "returned"
  /\ buildCalls' = Append(buildCalls,
                          BuildCall("checkDockerAvailable", "docker info", checkRet))
  /\ IF IsError(checkRet)
       THEN buildPc' = "done" /\ buildRet' = CmdReturn(checkRet)
       ELSE buildPc' = "engine" /\ buildRet' = buildRet
  /\ UNCHANGED << buildOpts, buildLocals, brokerVars, dockerVars, removeVars >>

\* buildEngine, err := resolveBuildEngine(o.flagBuildEngine)
BuildResolveEngine ==
  /\ buildPc = "engine"
  /\ LET r == ResolveBuildEngine(buildOpts.flagBuildEngine, buildOpts.bitbucket)
     IN /\ buildCalls' = Append(buildCalls,
                                BuildCall("resolveBuildEngine",
                                          buildOpts.flagBuildEngine, r))
        /\ IF IsError(r.err)
             THEN /\ buildPc' = "done"
                  /\ buildRet' = OsExit(1)
                  /\ buildLocals' = buildLocals
             ELSE /\ buildPc' = "rebase"
                  /\ buildRet' = buildRet
                  /\ buildLocals' =
                       [imageName |-> buildLocals.imageName,
                        platform |-> buildLocals.platform,
                        buildEngine |-> r.val]
  /\ UNCHANGED << buildOpts, brokerVars, dockerVars, removeVars >>

\* the five calls of rebasePath
BuildRebasePaths ==
  /\ buildPc = "rebase"
  /\ \E ok \in BOOLEAN :
       /\ buildCalls' = Append(buildCalls, BuildCall("rebasePath", "paths", ok))
       /\ IF ok
            THEN buildPc' = "build" /\ buildRet' = buildRet
            ELSE buildPc' = "done" /\ buildRet' = OsExit(2)
  /\ UNCHANGED << buildOpts, buildLocals, brokerVars, dockerVars, removeVars >>

\* the build engine's arguments, and executeCommand of docker with them
BuildExecute ==
  /\ buildPc = "build"
  /\ LET e == BuildEngineArgs(buildLocals.buildEngine)
     IN IF e.kind = "panic"
          THEN /\ buildCalls' = buildCalls
               /\ buildRet' = CmdPanic
          ELSE \E err \in RunResults :
                 /\ buildCalls' =
                      Append(buildCalls,
                             BuildCall("executeCommand",
                                       [command |-> "docker",
                                        engineArgs |-> e.args,
                                        buildkit |-> e.buildkit,
                                        t |-> buildLocals.imageName,
                                        platform |-> buildLocals.platform],
                                       err))
                 /\ buildRet' = IF IsError(err) THEN OsExit(1)
                                ELSE CmdReturn(NoError)
  /\ buildPc' = "done"
  /\ UNCHANGED << buildOpts, buildLocals, brokerVars, dockerVars, removeVars >>

BuildInit ==
  /\ InitBroker
  /\ target.HumanId = "tiny-squids"
  /\ InitDocker
  /\ InitRemove
  /\ InitBuild

BuildNext ==
  \/ BuildResolveProject
  \/ BuildImageName
  \/ BuildCheckDirs
  \/ BuildArchitecture
  \/ BuildCheckDocker
  \/ CommandReturns
  \/ Tick
  \/ Receive
  \/ TimeoutFires
  \/ BuildDockerChecked
  \/ BuildResolveEngine
  \/ BuildRebasePaths
  \/ BuildExecute

BuildSpec == BuildInit /\ [][BuildNext]_vars

(***************************************************************************)
(* Properties.                                                             *)
(***************************************************************************)
BrokerOps ==
  {"GetDetails", "GetKubeConfigWithEmbeddedCredentials",
   "GetKubeExecCredential", "GetKubeConfigWithExecCredential",
   "GetAWSCredentials", "GetDockerCredentials"}

KubeConfigOp == "GetKubeConfigWithExecCredential"

\* the last control-plane request failed: no response, a status outside 2xx
\* or a body that did not decode
RequestFailed == exec.fn = "httpRequest" /\ IsError(exec.out.err)

\* C1: whenever the control-plane request of a broker operation fails, the
\* operation returns an error and a nil result; it does not crash.
C1_FailedRequestReturnsError ==
  (op \in BrokerOps /\ RequestFailed)
    => /\ pc = "done"
       /\ ret.kind = "return"
       /\ IsNil(ret.val)
       /\ IsError(ret.err)

\* the exec-credential POST answered 2xx and decoded into a credential that
\* has a spec.cluster
ExecCredentialDecoded ==
  /\ exec.fn = "httpRequest"
  /\ exec.T = "KubeExecCredential"
  /\ ~IsError(exec.out.err)
  /\ ~IsNil(exec.out.val)
  /\ ~IsNil(exec.out.val.v.Spec.Cluster)

ClusterInfoEmpty ==
  /\ ExecCredentialDecoded
  /\ exec.out.val.v.Spec.Cluster.v.CertificateAuthorityData = << >>
  /\ exec.out.val.v.Spec.Cluster.v.Server = ""

IsDetailsGet(c) ==
  c.call = "http" /\ c.method = "GET" /\ c.path = DetailsPath(target.HumanId)
IsExecCredentialPost(c) ==
  /\ c.call = "http" /\ c.method = "POST"
  /\ c.path = ExecCredentialPath(target.HumanId)
IsUserInfo(c) == c.call = "auth.FetchUserInfo"

Issued(P(_)) == \E i \in 1..Len(calls) : P(calls[i])

MissingClusterError ==
  Errorf("Received kubeExecCredential with missing spec.cluster")
MissingNamespaceError ==
  Errorf("Environment details did not contain a valid Kubernetes namespace")

DetailsDecoded ==
  /\ exec.fn = "httpRequest"
  /\ exec.T = "EnvironmentDetails"
  /\ ~IsError(exec.out.err)
  /\ ~IsNil(exec.out.val)

NamespaceEmpty ==
  /\ DetailsDecoded
  /\ exec.out.val.v.Deployment.KubernetesNamespace = ""

Succeeded == pc = "done" /\ ret.kind = "return" /\ ~IsError(ret.err)

\* C3: when the details report an empty namespace,
\* GetKubeConfigWithExecCredential returns the missing-namespace error
\* without a user-info lookup; a successful run has issued exactly the
\* exec-credential POST, the details GET and the user-info lookup, in this
\* order.
C3_MissingNamespaceBeforeIdentity ==
  /\ (op = KubeConfigOp /\ NamespaceEmpty)
       => /\ pc = "done"
          /\ ret = Return(Nil, MissingNamespaceError)
          /\ ~Issued(IsUserInfo)
  /\ (op = KubeConfigOp /\ Succeeded)
       => /\ Len(calls) = 3
          /\ IsExecCredentialPost(calls[1])
          /\ IsDetailsGet(calls[2])
          /\ IsUserInfo(calls[3])

C3_Witness ==
  op = KubeConfigOp /\ NamespaceEmpty /\ pc = "done"

C3_WitnessSuccess == op = KubeConfigOp /\ Succeeded

\* the AWS-credential POST answered 2xx and its body decoded without error
AWSRequestSucceeded ==
  /\ exec.fn = "httpRequest"
  /\ exec.T = "AWSCredentials"
  /\ ~IsError(exec.out.err)

AWSComplete ==
  /\ ~IsNil(exec.out.val)
  /\ exec.out.val.v.AccessKeyId # ""
  /\ exec.out.val.v.SecretAccessKey # ""

AWSMissingField ==
  IF IsNil(exec.out.val) \/ exec.out.val.v.AccessKeyId = ""
    THEN Errorf("AWS credentials missing AccessKeyId")
    ELSE Errorf("AWS credential missing SecretAccessKey")

\* C4: when its request succeeds and decodes, GetAWSCredentials returns the
\* credentials if both AccessKeyId and SecretAccessKey are non-empty, and
\* otherwise a nil result and the error naming the missing field.
C4_AWSCredentialsValidated ==
  (op = "GetAWSCredentials" /\ AWSRequestSucceeded)
    => /\ pc = "done"
       /\ IF AWSComplete
            THEN ret = Return(exec.out.val, NoError)
            ELSE ret = Return(Nil, AWSMissingField)

\* an executor got a response
Responded ==
  /\ exec.fn \in {"httpRequest", "Request"}
  /\ exec.out.kind = "return"
  /\ ~IsError(exec.resp.err)

StatusErrorMsg == "%s request to %s failed with status code %d"

IsStatusError(e) == IsError(e) /\ e.msg = StatusErrorMsg

\* the path as the executor's errors name it
ErrorPath ==
  IF exec.fn = "Request" THEN client.BaseURL \o exec.path ELSE exec.path

\* the executor returned no result: a nil pointer, or the zero value
NoResult ==
  IF exec.fn = "Request"
    THEN exec.out.val = ZeroValue(exec.T)
    ELSE IsNil(exec.out.val)

\* C5: in both executors a response with a status below 200 or at least
\* 300 yields the status error with the method, the path and the status,
\* nothing is decoded and no result is returned; a status in [200, 300)
\* never yields the status error.
C5_StatusOutside2xxIsError ==
  Responded =>
    IF exec.resp.status < 200 \/ exec.resp.status >= 300
      THEN /\ IsStatusError(exec.out.err)
           /\ exec.out.err.method = exec.method
           /\ exec.out.err.path = ErrorPath
           /\ exec.out.err.status = exec.resp.status
           /\ ~exec.out.unmarshal
           /\ NoResult
      ELSE ~IsStatusError(exec.out.err)

C5_Witness ==
  Responded /\ exec.fn = "Request" /\ exec.resp.status = 300

C5_WitnessEnvapi ==
  Responded /\ exec.fn = "httpRequest" /\ exec.resp.status = 199

\* the text an executor returned for the result type string
ResultText == IF exec.fn = "Request" THEN exec.out.val ELSE exec.out.val.v

\* C6: on a 2xx response, a string result is the raw body verbatim and
\* nothing is parsed, so no error arises; any other result type is parsed
\* as JSON and a parse failure yields an error with no result.
C6_DecodingPolicy ==
  (Responded /\ exec.resp.status >= 200 /\ exec.resp.status < 300)
    => IF exec.T = "string"
         THEN /\ ~exec.out.unmarshal
              /\ ~IsError(exec.out.err)
              /\ ResultText = exec.resp.body
         ELSE /\ exec.out.unmarshal
              /\ IsError(exec.out.err) => NoResult

DockerOp == "GetDockerCredentials"

\* the registry answered the authorization token request without an error
RegistryAnswered ==
  /\ op = DockerOp
  /\ reply.from = "ecr.GetAuthorizationToken"
  /\ ~IsError(reply.err)

AuthorizationMissing ==
  \/ Len(reply.AuthorizationData) = 0
  \/ IsNil(reply.AuthorizationData[1].AuthorizationToken)
  \/ IsNil(reply.AuthorizationData[1].ProxyEndpoint)

EmptyAuthorizationError ==
  Errorf("received an empty authorization token response for ECR repository")

\* C7: when the authorization data is empty or its first entry lacks the
\* token or the endpoint, GetDockerCredentials returns the
\* empty-authorization-token error and a nil result; a non-nil result is
\* returned only from a registry answer and has the RegistryURL of the first
\* entry's endpoint.
C7_NoCredentialFromEmptyAuthorization ==
  /\ (RegistryAnswered /\ AuthorizationMissing)
       => ret = Return(Nil, EmptyAuthorizationError)
  /\ (op = DockerOp /\ ~IsNil(ret.val))
       => /\ ret.kind = "return"
          /\ RegistryAnswered
          /\ ~AuthorizationMissing
          /\ ret.val.v.RegistryURL =
               reply.AuthorizationData[1].ProxyEndpoint.v

C7_Witness ==
  /\ RegistryAnswered
  /\ Len(reply.AuthorizationData) > 0
  /\ ~IsNil(reply.AuthorizationData[1].AuthorizationToken)
  /\ IsNil(reply.AuthorizationData[1].ProxyEndpoint)
  /\ pc = "done"

C7_WitnessCredential ==
  op = DockerOp /\ ~IsNil(ret.val) /\ Len(reply.AuthorizationData) = 2

\* the registry's token decoded from base64
TokenDecoded ==
  /\ RegistryAnswered
  /\ ~AuthorizationMissing
  /\ ~IsError(Base64DecodeString(
                reply.AuthorizationData[1].AuthorizationToken.v).err)

DecodedToken ==
  Base64DecodeString(reply.AuthorizationData[1].AuthorizationToken.v).bytes

HasColon(s) == \E i \in 1..Len(s) : s[i] = Colon

TokenParseError == Errorf("failed to parse authorization token")

\* C8: a decoded token without a colon is rejected with the token-parse
\* error; a decoded token u:p, u without a colon, gives username u and
\* password p, later colons staying in the password; "abc:de:f" gives
\* "abc" and "de:f".
C8_SplitOnFirstColon ==
  TokenDecoded =>
    IF HasColon(DecodedToken)
      THEN /\ ret.kind = "return"
           /\ ~IsError(ret.err)
           /\ ~IsNil(ret.val)
           /\ ~HasColon(ret.val.v.Username)
           /\ ret.val.v.Username \o << Colon >> \o ret.val.v.Password
                = DecodedToken
           /\ DecodedToken = SampleToken
                => /\ ret.val.v.Username = << 97, 98, 99 >>
                   /\ ret.val.v.Password = << 100, 101, 58, 102 >>
      ELSE ret = Return(Nil, TokenParseError)

C8_Witness ==
  /\ TokenDecoded
  /\ HasColon(DecodedToken)
  /\ pc = "done"
  /\ ~IsNil(ret.val)
  /\ HasColon(ret.val.v.Password)

C8_WitnessNoColon ==
  TokenDecoded /\ ~HasColon(DecodedToken) /\ Len(DecodedToken) > 0

IsAWSPost(c) ==
  c.call = "http" /\ c.method = "POST" /\ c.path = AWSPath(target.HumanId)
IsRegistryRequest(c) == c.call = "ecr.GetAuthorizationToken"

RegistryRequests == {i \in 1..Len(calls) : IsRegistryRequest(calls[i])}

\* the AWS-credential step of GetDockerCredentials failed: the request
\* failed, nothing was decoded, or a key is missing
AWSStepFailed ==
  /\ op = DockerOp
  /\ \/ IsError(exec.out.err)
     \/ IsNil(exec.out.val)
     \/ exec.out.val.v.AccessKeyId = ""
     \/ exec.out.val.v.SecretAccessKey = ""

\* C9: in GetDockerCredentials the registry request is issued at most
\* once, only after the AWS-credential request has come back with
\* credentials, and never when the AWS-credential step failed, which ends
\* the call.
C9_AWSBeforeRegistry ==
  op = DockerOp =>
    /\ Cardinality(RegistryRequests) <= 1
    /\ \A i \in RegistryRequests :
         /\ i > 1
         /\ IsAWSPost(calls[1])
         /\ exec.out.kind = "return"
         /\ ~AWSStepFailed
    /\ pc = "docker_token"
         => /\ IsAWSPost(calls[1])
            /\ ~AWSStepFailed
            /\ locals.awsCredentials = exec.out.val
    /\ AWSStepFailed => (pc = "done" /\ RegistryRequests = {})

C9_Witness ==
  op = DockerOp /\ pc = "done" /\ Cardinality(RegistryRequests) = 1

C9_WitnessFailed == AWSStepFailed /\ ret.kind = "return"

\* the kubeconfig document read back
Scalar(m, k) == YGet(m, k).s
Items(m, k) == YGet(m, k).items

KubeConfigConsistent(doc, credentials, email) ==
  /\ Len(Items(doc, "clusters")) = 1
  /\ Len(Items(doc, "contexts")) = 1
  /\ Len(Items(doc, "users")) = 1
  /\ Scalar(doc, "current-context") = Scalar(Items(doc, "contexts")[1], "name")
  /\ Scalar(Items(doc, "contexts")[1], "name") = target.HumanId
  /\ Scalar(YGet(Items(doc, "contexts")[1], "context"), "cluster")
       = Scalar(Items(doc, "clusters")[1], "name")
  /\ Scalar(Items(doc, "clusters")[1], "name")
       = credentials.Spec.Cluster.v.Server
  /\ Scalar(YGet(Items(doc, "contexts")[1], "context"), "user")
       = Scalar(Items(doc, "users")[1], "name")
  /\ Scalar(Items(doc, "users")[1], "name") = email

\* C10: a kubeconfig produced by GetKubeConfigWithExecCredential has one
\* cluster, one context and one user; current-context is the context's
\* name, the deployment id; the context's cluster is the cluster's name,
\* the server URL; the context's user is the user's name, the resolved
\* email.
C10_KubeConfigNames ==
  (op = KubeConfigOp /\ ~IsNil(ret.val))
    => KubeConfigConsistent(ret.val.v.yaml, locals.credentials,
                            reply.val.v.Email)

C10_Witness ==
  /\ op = KubeConfigOp
  /\ ~IsNil(ret.val)
  /\ locals.credentials.Spec.Cluster.v.Server # ""

\* every string scalar of a YAML document
RECURSIVE YStrings(_)
YStrings(n) ==
  CASE n.y = "str" -> {n.s}
    [] n.y = "text" -> {}
    [] n.y = "seq" -> UNION {YStrings(n.items[i]) : i \in 1..Len(n.items)}
    [] n.y = "map" -> UNION {YStrings(n.pairs[i].n) : i \in 1..Len(n.pairs)}

\* the exec hook of a user entry, as the document states it
ExecHookShape(user, t) ==
  /\ Scalar(user, "token") = ""
  /\ Scalar(YGet(user, "exec"), "command") = "metaplay"
  /\ Items(YGet(user, "exec"), "args")
       = << YStr("environment"), YStr("get-kubernetes-execcredential"),
            YStr("--stack-api"), YStr(t.StackApiBaseURL),
            YStr("--environment"), YStr(t.HumanId) >>
  /\ Scalar(YGet(user, "exec"), "apiVersion")
       = "client.authentication.k8s.io/v1beta1"
  /\ Scalar(YGet(user, "exec"), "interactiveMode") = "Never"

Wraps(e, cause) ==
  IsError(e) /\ \E i \in 1..Len(Chain(Unwrap(e))) : Chain(Unwrap(e))[i] = cause

\* GetDockerCredentials ended because GetAWSCredentials returned an error
AWSStepReturnedError ==
  /\ op = DockerOp
  /\ pc = "done"
  /\ Len(calls) = 1
  /\ GetAWSCredentials(exec.out).kind = "return"
  /\ IsError(GetAWSCredentials(exec.out).err)

\* the identity lookup of GetKubeConfigWithExecCredential failed
UserInfoFailed ==
  /\ op = KubeConfigOp
  /\ pc = "done"
  /\ reply.from = "auth.FetchUserInfo"
  /\ IsError(reply.err)

\* C12: when GetAWSCredentials fails inside GetDockerCredentials, the
\* error GetDockerCredentials returns wraps the error GetAWSCredentials
\* returned, which unwrapping recovers; when the identity lookup of
\* GetKubeConfigWithExecCredential fails, the returned error wraps the
\* lookup's error.
C12_ErrorsWrapCause ==
  /\ AWSStepReturnedError
       => Wraps(ret.err, GetAWSCredentials(exec.out).err)
  /\ UserInfoFailed => Wraps(ret.err, reply.err)

\* json.Unmarshal ran in the last executor call and failed
DecodeFailed ==
  /\ exec.fn \in {"httpRequest", "Request"}
  /\ exec.out.kind = "return"
  /\ exec.out.unmarshal
  /\ IsError(JsonUnmarshal(exec.T, exec.resp.body.doc).err)

\* the error types of encoding/json
JsonParserTypes == {"*json.SyntaxError", "*json.UnmarshalTypeError"}

\* C13: when the body of a non-plaintext endpoint does not decode, the
\* executor returns an error that is not the JSON parser's own error but a
\* decode error that names the path and wraps the parser's error; the
\* malformed body is written to the log and is no part of the returned
\* error.
C13_DecodeErrorIdentity ==
  DecodeFailed
    => /\ IsError(exec.out.err)
       /\ exec.out.err.gotype \notin JsonParserTypes
       /\ "path" \in DOMAIN exec.out.err
       /\ exec.out.err.path = ErrorPath
       /\ Wraps(exec.out.err, JsonUnmarshal(exec.T, exec.resp.body.doc).err)
       /\ exec.out.logged = << exec.resp.body >>
       /\ DOMAIN exec.out.err \subseteq {"tag", "gotype", "msg", "cause", "path"}

\* the failure modes that are told apart
ClaimedModes ==
  {"transport", "bad status", "decode", "missing cluster info",
   "missing namespace", "identity resolution", "incomplete AWS credential",
   "empty authorization token", "token parse", "upstream credential"}

\* an operation has just returned an error in one of these modes
FailedIn(modes) ==
  /\ pc = "done"
  /\ ret.kind = "return"
  /\ IsError(ret.err)
  /\ FailureMode \in modes

\* C14: two failures of different modes (transport failure, bad status,
\* decode failure, missing cluster info, missing namespace, identity
\* resolution failure, incomplete AWS credential, empty authorization
\* token, token parse failure, upstream credential failure) have errors of
\* different kinds: the failure a caller saw before and the failure it gets
\* now, when their modes differ, differ in kind.
C14_DistinctErrorKinds ==
  (FailedIn(ClaimedModes) /\ seen.mode \in ClaimedModes
     /\ seen.mode # FailureMode)
    => seen.kind # Kind(ret.err)

\* the sentinel error of a cancelled context
ContextCanceled == LibError("*errors.errorString", "context canceled")

\* errors.Is(e, sentinel)
ErrorsIs(e, sentinel) ==
  \E i \in 1..Len(Chain(e)) : Chain(e)[i] = sentinel

\* C16: when the caller has signalled cancellation while a network call of
\* the running operation was in flight, the operation returns a
\* cancellation error, which a transport error is not, and no credential.
C16_CancellationFailsFast ==
  (pc = "done" /\ ctx = "cancelled")
    => /\ ret.kind = "return"
       /\ IsNil(ret.val)
       /\ IsError(ret.err)
       /\ ErrorsIs(ret.err, ContextCanceled)

\* C18: no step of a broker operation or of an executor, in any sequence of
\* calls and whatever the outcome, changes the target (TokenSet,
\* StackApiBaseURL, HumanId, the bound client) or adds a field to it, nor
\* changes the metahttp client.
C18_TargetImmutable ==
  [][/\ target' = target
     /\ client' = client
     /\ DOMAIN target' = {"TokenSet", "StackApiBaseURL", "HumanId", "Resty"}]_vars

\* an operation has succeeded after an earlier one had failed, on the
\* target as it was constructed
C18_Witness ==
  /\ op \in BrokerOps
  /\ Succeeded
  /\ seen.mode = "bad status"
  /\ target = NewTargetEnvironment(TheTokenSet, StackApiBaseURL, "tiny-squids")

\* the operations that are one control-plane request
SingleRequestOps ==
  {"GetDetails", "GetKubeConfigWithEmbeddedCredentials",
   "GetKubeExecCredential", "GetAWSCredentials"}

\* the control-plane requests among the calls issued so far
HttpCalls(P(_)) == {i \in 1..Len(calls) : calls[i].call = "http" /\ P(calls[i])}
AnyCall(c) == TRUE

\* C15: an executor invocation that goes through with its verb issues
\* exactly one request, the one it was asked for, whatever the outcome
\* (no response, any status, any body), and no invocation issues more than
\* one; GetDetails, GetKubeConfigWithEmbeddedCredentials,
\* GetKubeExecCredential and GetAWSCredentials have issued exactly one
\* control-plane request when they end; GetKubeConfigWithExecCredential
\* issues at most one exec-credential POST and at most one details GET.
C15_NoRetries ==
  /\ exec.fn \in {"httpRequest", "Request"}
       => /\ Len(exec.out.sent) <= 1
          /\ exec.out.kind = "return"
               => exec.out.sent = << HttpCall(exec.method, exec.path) >>
  /\ (pc = "done" /\ op \in SingleRequestOps)
       => Cardinality(HttpCalls(AnyCall)) = 1
  /\ op = KubeConfigOp
       => /\ Cardinality(HttpCalls(IsExecCredentialPost)) <= 1
          /\ Cardinality(HttpCalls(IsDetailsGet)) <= 1
          /\ Cardinality(HttpCalls(AnyCall)) <= 2

\* a broker operation whose only request got no response has ended
C15_Witness ==
  /\ pc = "done"
  /\ op \in SingleRequestOps
  /\ IsError(exec.resp.err)
  /\ Len(calls) = 1

C15_WitnessKubeConfig ==
  op = KubeConfigOp /\ pc = "done" /\ Cardinality(HttpCalls(AnyCall)) = 2

\* C19: with GET, POST or PUT an executor issues the request and goes on
\* to the status check and the decoding; with any other method it panics,
\* having issued no request, and returns no result.
C19_AcceptedVerbs ==
  exec.fn \in {"httpRequest", "Request"}
    => IF exec.method \in {"GET", "POST", "PUT"}
         THEN /\ exec.out.kind = "return"
              /\ exec.out.sent = << HttpCall(exec.method, exec.path) >>
              /\ ~IsError(exec.resp.err)
                   => IF BadStatus(exec.resp.status)
                        THEN IsStatusError(exec.out.err)
                        ELSE exec.out.unmarshal = (exec.T # "string")
         ELSE /\ exec.out.kind = "panic"
              /\ exec.out.sent = << >>
              /\ NoResult

\* checkDockerAvailable has returned the error of its timeout case
TimedOut == checkPc = "returned" /\ checkRet = SelectTimeout

\* what checkDockerAvailable returned, by the case its select took
CheckOutcome ==
  checkPc = "returned" =>
    /\ checkRet = NoError
         => goPc = "exited" /\ cmdRet = NoError
    /\ (IsError(checkRet) /\ ~TimedOut)
         => /\ goPc = "exited"
            /\ IsError(cmdRet)
            /\ Unwrap(checkRet) = cmdRet
    /\ TimedOut
         => /\ timer = TimeoutSeconds
            /\ goPc # "exited"
            /\ Kind(checkRet) # Kind(SelectDone(CheckCommand(ExitError)))
    /\ timer < TimeoutSeconds => checkRet = SelectDone(cmdRet)
    /\ goPc = "run" => TimedOut

\* C17: checkDockerAvailable returns nil only when its select received a
\* nil result of the check; it returns the check-failure error wrapping
\* the check's error when the select received an error, which is what
\* happens whenever it returns before the 5 seconds have passed; it
\* returns the timeout error, of another kind than the check-failure
\* error, only once the 5 seconds have passed, and does so when the check
\* has not completed; once called it always returns.
C17_RaceAgainstTimeout ==
  /\ []CheckOutcome
  /\ (checkPc = "select") ~> (checkPc = "returned")

\* the timeout fired while the check had not completed
C17_Witness == TimedOut /\ goPc = "run" /\ runs = 2

C17_WitnessFailure ==
  /\ checkPc = "returned"
  /\ timer < TimeoutSeconds
  /\ IsError(cmdRet)
  /\ Unwrap(checkRet) = cmdRet

\* C20: the goroutine spawned by checkDockerAvailable terminates once its
\* command has completed: whenever it stands at its send on done,
\* checkDockerAvailable, the only receiver of done, is still in its
\* select, also when the timeout has fired.
C20_GoroutineTerminates ==
  goPc = "send" => checkPc = "select"


\* what the kubeconfig fetch of the running remove command gave
KubeConfigFetches ==
  {i \in 1..Len(rmCalls) :
     rmCalls[i].call = "GetKubeConfigWithEmbeddedCredentials"}
FetchFailed(i) == IsError(rmCalls[i].err) \/ IsNil(rmCalls[i].val)
HelmCalls ==
  {i \in 1..Len(rmCalls) :
     rmCalls[i].call \in {"helmutil.NewActionConfig",
                          "helmutil.HelmListReleases",
                          "helmutil.UninstallRelease"}}

\* C21: in both remove commands, when the fetch of the kubeconfig fails no
\* call to helmutil (configure, list, uninstall) follows and the command
\* ends reporting that failure; helmutil.NewActionConfig is only ever
\* called with a kubeconfig that was fetched successfully and is not nil
C21_HelmOnlyWithKubeConfig ==
  /\ \A i \in KubeConfigFetches :
       FetchFailed(i) =>
         /\ HelmCalls = {}
         /\ rmPc = "done" => rmRet = CmdReturn(rmCalls[i].err)
  /\ \A i \in 1..Len(rmCalls) :
       rmCalls[i].call = "helmutil.NewActionConfig" =>
         /\ ~IsNil(rmCalls[i].kubeconfig)
         /\ \E j \in KubeConfigFetches : j < i /\ ~FetchFailed(j)


\* HelmListReleases has been called, and the names of the releases it found
Listed ==
  \E i \in 1..Len(rmCalls) : rmCalls[i].call = "helmutil.HelmListReleases"
Found ==
  [i \in 1..Len(rmLocals.helmReleases) |-> rmLocals.helmReleases[i].Name]
\* the calls of UninstallRelease, in order
IsUninstall(c) == c.call = "helmutil.UninstallRelease"
Attempts == SelectSeq(rmCalls, IsUninstall)
ReturnedError == rmPc = "done" /\ rmRet.kind = "return" /\ IsError(rmRet.err)

\* C22: 'remove botclients' uninstalls the releases found in list order and
\* attempts nothing after a failed uninstall; it returns nil only when at
\* least one release was found and every one of them was uninstalled
\* successfully; when none is found it returns an error and has uninstalled
\* nothing; at the first failed uninstall it returns an error that names
\* the release and wraps the failure
C22_UninstallAllOrFail ==
  rmCmd = "botclients" =>
    /\ rmRet = CmdReturn(NoError) => Listed
    /\ Listed =>
         /\ Len(Attempts) <= Len(Found)
         /\ \A i \in 1..Len(Attempts) :
              /\ Attempts[i].release = Found[i]
              /\ i < Len(Attempts) => ~IsError(Attempts[i].err)
         /\ rmRet = CmdReturn(NoError) =>
              /\ Len(Found) >= 1
              /\ Len(Attempts) = Len(Found)
              /\ \A i \in 1..Len(Attempts) : ~IsError(Attempts[i].err)
         /\ Len(Found) = 0 => ReturnedError /\ Attempts = << >>
         /\ \A i \in 1..Len(Attempts) :
              IsError(Attempts[i].err) =>
                /\ ReturnedError
                /\ rmRet.err.msg =
                     "failed to uninstall Helm relese " \o Attempts[i].release
                       \o ": " \o Attempts[i].err.msg
                /\ Unwrap(rmRet.err) = Attempts[i].err

\* every release of a full list was uninstalled and Run returned nil
C22_Witness ==
  /\ rmCmd = "botclients"
  /\ Listed
  /\ Len(Found) = MaxReleases
  /\ Len(Attempts) = MaxReleases
  /\ rmRet = CmdReturn(NoError)

\* the first uninstall failed with another release still to go
C22_WitnessFailure ==
  /\ rmCmd = "botclients"
  /\ Listed
  /\ Len(Found) > 1
  /\ Len(Attempts) = 1
  /\ IsError(Attempts[1].err)
  /\ ReturnedError

\* no release was found
C22_WitnessNone ==
  /\ rmCmd = "botclients"
  /\ Listed
  /\ Len(Found) = 0
  /\ ReturnedError


\* the calls of name that Run of 'build docker-image' has made
BuildCallsOf(name) == {i \in 1..Len(buildCalls) : buildCalls[i].call = name}
DockerBuilds == BuildCallsOf("executeCommand")
\* what an engine option must resolve to, "error" standing for an error
EngineFor(flag, bitbucket) ==
  CASE flag = "" /\ bitbucket -> "buildkit"
    [] flag = "" /\ ~bitbucket -> "buildx"
    [] flag = "buildx" -> "buildx"
    [] flag = "buildkit" -> "buildkit"
    [] OTHER -> "error"
EndsInLatest(name) ==
  /\ Len(name) >= 7
  /\ \A k \in 1..7 : name[Len(name) - 7 + k] = Latest[k]

\* C23: Run of 'build docker-image' executes docker build at most once, and
\* only after, in this order, the resolved image name was found not to end
\* in ':latest', the architecture was found to be amd64 or arm64,
\* checkDockerAvailable returned nil, and the build engine resolved to
\* buildx or buildkit (an empty option gives buildkit when
\* BITBUCKET_PIPELINE_UUID is set and buildx otherwise, any other value
\* is an error); when one of them fails no docker build is run
C23_BuildAfterPreflight ==
  /\ Cardinality(DockerBuilds) <= 1
  /\ \A b \in DockerBuilds :
       \E i, j, k, l \in 1..Len(buildCalls) :
         /\ i < j /\ j < k /\ k < l /\ l < b
         /\ buildCalls[i].call = "strings.HasSuffix"
         /\ buildCalls[j].call = "contains"
         /\ buildCalls[k].call = "checkDockerAvailable"
         /\ buildCalls[l].call = "resolveBuildEngine"
         /\ buildCalls[i].arg =
              ResolveImageName(buildOpts.argImageName, Timestamp,
                               buildOpts.projectID)
         /\ buildCalls[b].arg.t = buildCalls[i].arg
         /\ ~EndsInLatest(buildCalls[i].arg)
         /\ buildOpts.flagArchitecture \in {"amd64", "arm64"}
         /\ buildCalls[b].arg.platform = buildOpts.flagArchitecture
         /\ buildCalls[k].result = NoError
         /\ buildCalls[l].result.val =
              EngineFor(buildOpts.flagBuildEngine, buildOpts.bitbucket)
         /\ buildCalls[l].result.val \in {"buildx", "buildkit"}
         /\ buildCalls[b].arg.engineArgs =
              IF buildCalls[l].result.val = "buildkit"
                THEN << "build" >> ELSE << "buildx", "build", "--load" >>
  /\ \A i \in BuildCallsOf("strings.HasSuffix") :
       EndsInLatest(buildCalls[i].arg) =>
         DockerBuilds = {} /\ buildRet = OsExit(1)
  /\ \A j \in BuildCallsOf("contains") :
       buildCalls[j].arg \notin {"amd64", "arm64"} =>
         DockerBuilds = {} /\ buildRet = OsExit(2)
  /\ \A k \in BuildCallsOf("checkDockerAvailable") :
       IsError(buildCalls[k].result) =>
         DockerBuilds = {} /\ buildRet = CmdReturn(buildCalls[k].result)
  /\ \A l \in BuildCallsOf("resolveBuildEngine") :
       /\ EngineFor(buildCalls[l].arg, buildOpts.bitbucket) = "error" =>
            /\ DockerBuilds = {}
            /\ buildRet = OsExit(1)
            /\ IsError(buildCalls[l].result.err)
       /\ EngineFor(buildCalls[l].arg, buildOpts.bitbucket) # "error" =>
            /\ buildCalls[l].result.val =
                 EngineFor(buildCalls[l].arg, buildOpts.bitbucket)
            /\ ~IsError(buildCalls[l].result.err)

\* docker build has run for an image named from the project, with the
\* engine chosen for a Bitbucket pipeline
C23_Witness ==
  /\ buildPc = "done"
  /\ buildRet = CmdReturn(NoError)
  /\ Cardinality(DockerBuilds) = 1
  /\ buildOpts.argImageName = << "g", ":" >> \o ProjectIDTag
  /\ buildOpts.flagBuildEngine = ""
  /\ buildOpts.bitbucket
  /\ buildLocals.buildEngine = "buildkit"

\* an engine option that is neither buildx nor buildkit stopped Run
C23_WitnessInvalidEngine ==
  /\ buildPc = "done"
  /\ buildOpts.flagBuildEngine = "docker"
  /\ BuildCallsOf("resolveBuildEngine") # {}
  /\ DockerBuilds = {}
  /\ buildRet = OsExit(1)

\* a project named latest made the image name end in ':latest'
C23_WitnessLatest ==
  /\ buildPc = "done"
  /\ buildOpts.argImageName = << "g", ":" >> \o ProjectIDTag
  /\ BuildCallsOf("strings.HasSuffix") # {}
  /\ BuildCallsOf("contains") = {}
  /\ buildRet = OsExit(1)

\* checkDockerAvailable timed out and Run returned its error
C23_WitnessDockerTimeout ==
  /\ buildPc = "done"
  /\ buildRet = CmdReturn(SelectTimeout)

=============================================================================
